---- MODULE Spec2Model ----
(***************************************************************************)
(* Model of the restricted code-execution sandbox of powerllm              *)
(* (custom_components/powerllm/tools/python_code.py).                      *)
(*                                                                         *)
(* An attribute name is a sequence of segments, split after a leading      *)
(* "async_" or "_" ("async_stop" is <<"async_", "stop">>, "_private" is    *)
(* <<"_", "private">>, "is_state" is <<"is_state">>), so that              *)
(* str.startswith is computed on the first segment.  A module name is the  *)
(* sequence of its dot-separated components ("json.decoder" is             *)
(* <<"json", "decoder">>), so that name.split(".")[0] is Head(name).       *)
(***************************************************************************)
EXTENDS Integers, Sequences, FiniteSets, TLC

\* ------------------------------------------------------------------ bounds

\* Calls of python_code_execute in one behaviour.
MaxCalls == 2

\* Statements the programs of one behaviour execute, all calls together.
MaxSteps == 3

\* Records the shared log list may hold (caps the logging statements).
MaxLogs == 2

\* The calls of TimeWrapper.sleep a behaviour makes.
MaxSleeps == 4

\* The calls of async_register_tool a behaviour makes.
MaxRegistrations == 4

\* The submissions of a flow that are refused with errors.
MaxRetries == 2

\* ------------------------------------------------------- capability tables

ALLOWED_HASS == {<<"bus">>, <<"services">>, <<"states">>}

ALLOWED_EVENTBUS == {<<"fire">>}

ALLOWED_STATEMACHINE ==
    {<<"entity_ids">>, <<"all">>, <<"get">>, <<"is_state">>,
     <<"is_state_attr">>, <<"remove">>, <<"set">>}

ALLOWED_SERVICEREGISTRY == {<<"services">>, <<"has_service">>, <<"call">>}

ALLOWED_TIME ==
    {<<"sleep">>, <<"strftime">>, <<"strptime">>, <<"gmtime">>,
     <<"localtime">>, <<"ctime">>, <<"time">>, <<"mktime">>}

ALLOWED_DATETIME ==
    {<<"date">>, <<"time">>, <<"datetime">>, <<"timedelta">>, <<"tzinfo">>}

ALLOWED_DT_UTIL ==
    {<<"utcnow">>, <<"now">>, <<"as_utc">>, <<"as_timestamp">>, <<"as_local">>,
     <<"utc_from_timestamp">>, <<"start_of_local_day">>, <<"parse_datetime">>,
     <<"parse_date">>, <<"get_age">>}

ALLOWED_IMPORT ==
    {"math", "random", "itertools", "functools", "collections", "json",
     "csv", "re", "string", "operator", "enum", "types"}

\* ------------------------------------------------------------ the universe

\* The objects an attribute read can be made on: the seven special owners
\* of protected_getattr, a str instance and an unrelated object.
Objects ==
    {"hass", "bus", "states", "services", "dt_util", "datetime",
     "TimeWrapper", "str", "other"}

\* The owners protected_getattr tests for, with the table of each.
Owners ==
    {"hass", "bus", "states", "services", "dt_util", "datetime", "TimeWrapper"}

\* The owners that are the host handle or one of its three registries.
HostOwners == {"hass", "bus", "states", "services"}

\* Names that are in no table.
OtherNames ==
    {<<"config">>, <<"format">>, <<"missing">>, <<"async_", "stop">>,
     <<"async_", "fire">>, <<"async_", "set">>, <<"_", "private">>}

AttrNames ==
    ALLOWED_HASS \cup ALLOWED_EVENTBUS \cup ALLOWED_STATEMACHINE
        \cup ALLOWED_SERVICEREGISTRY \cup ALLOWED_TIME \cup ALLOWED_DATETIME
        \cup ALLOWED_DT_UTIL \cup OtherNames

\* str.startswith(prefix) on a segmented name.
StartsWith(name, prefix) == Len(name) >= 1 /\ name[1] = prefix

\* Whether the object really has the attribute (getattr's third argument is
\* returned when it has not).
HasAttr(obj, name) == name # <<"missing">>

\* ------------------------------------------------------------------ hooks

\* What an attribute read gives back: exc is the kind of the exception it
\* raises ("none" when it returns), msg the message, yields whether the value
\* of the attribute is handed to the caller.
Raises(kind, text) == [exc |-> kind, msg |-> text, yields |-> FALSE]

Returns(isAttribute) == [exc |-> "none", msg |-> "", yields |-> isAttribute]

\* RestrictedPython's safer_getattr(object, name, default), the generic getter
\* protected_getattr delegates to.
safer_getattr(obj, name) ==
    IF obj = "str" /\ name = <<"format">>
    THEN Raises("NotImplementedError", "Using format() on a str is not safe.")
    ELSE IF StartsWith(name, "_")
    THEN Raises("AttributeError", "is an invalid attribute name")
    ELSE Returns(HasAttr(obj, name))

\* The table protected_getattr tests a name of the owner against.
AllowedOf(obj) ==
    CASE obj = "hass" -> ALLOWED_HASS
      [] obj = "bus" -> ALLOWED_EVENTBUS
      [] obj = "states" -> ALLOWED_STATEMACHINE
      [] obj = "services" -> ALLOWED_SERVICEREGISTRY
      [] obj = "dt_util" -> ALLOWED_DT_UTIL
      [] obj = "datetime" -> ALLOWED_DATETIME
      [] obj = "TimeWrapper" -> ALLOWED_TIME
      [] OTHER -> AttrNames

\* The seven-way condition of protected_getattr: obj is one of the owners
\* and the name is not in that owner's table.
OwnerDenies(obj, name) ==
    \/ obj = "hass" /\ name \notin ALLOWED_HASS
    \/ obj = "bus" /\ name \notin ALLOWED_EVENTBUS
    \/ obj = "states" /\ name \notin ALLOWED_STATEMACHINE
    \/ obj = "services" /\ name \notin ALLOWED_SERVICEREGISTRY
    \/ obj = "dt_util" /\ name \notin ALLOWED_DT_UTIL
    \/ obj = "datetime" /\ name \notin ALLOWED_DATETIME
    \/ obj = "TimeWrapper" /\ name \notin ALLOWED_TIME

\* protected_getattr with the owner condition written without the
\* TimeWrapper and datetime lines.
protected_getattr_FewerOwners(obj, name) ==
    IF StartsWith(name, "async_")
    THEN Raises("ScriptError", "Not allowed to access async methods")
    ELSE IF OwnerDenies(obj, name) /\ obj \notin {"TimeWrapper", "datetime"}
    THEN Raises("ScriptError", "Not allowed to access")
    ELSE safer_getattr(obj, name)

\* protected_getattr with the owner tables consulted before the async_ test.
protected_getattr_TableFirst(obj, name) ==
    IF OwnerDenies(obj, name)
    THEN Raises("ScriptError", "Not allowed to access")
    ELSE IF StartsWith(name, "async_")
    THEN Raises("ScriptError", "Not allowed to access async methods")
    ELSE safer_getattr(obj, name)

\* protected_getattr(obj, name): the hook bound to _getattr_.
protected_getattr(obj, name) ==
    IF StartsWith(name, "async_")
    THEN Raises("ScriptError", "Not allowed to access async methods")
    ELSE IF OwnerDenies(obj, name)
    THEN Raises("ScriptError", "Not allowed to access")
    ELSE safer_getattr(obj, name)

\* The builtin getattr(obj, name) that extra_builtins binds to the name
\* `getattr`: no guard is applied.
builtin_getattr(obj, name) ==
    IF HasAttr(obj, name)
    THEN Returns(TRUE)
    ELSE Raises("AttributeError", "object has no attribute")

\* The builtin hasattr(obj, name) that extra_builtins binds to the name
\* `hasattr`: it reads the attribute unguarded and returns a truth value.
builtin_hasattr(obj, name) == Returns(FALSE)

\* The modules the interpreter can really import among those whose first
\* component is allowed.
RealModules ==
    {<<m>> : m \in ALLOWED_IMPORT}
        \cup {<<"json", "decoder">>, <<"collections", "abc">>}

\* The module names a program may ask for.
ModuleNames ==
    RealModules
        \cup {<<"datetime">>, <<"time">>, <<"dt_util">>, <<"logging">>,
              <<"os">>, <<"sys">>, <<"subprocess">>, <<"homeassistant">>,
              <<"math", "nope">>, <<"datetime", "datetime">>,
              <<"logging", "handlers">>, <<"os", "path">>}

\* What an import gives back: mod names the object returned.
ImportRaises(kind, text) == [exc |-> kind, msg |-> text, mod |-> "none"]

ImportReturns(m) == [exc |-> "none", msg |-> "", mod |-> m]

\* protected_import that tests only the first component of the name against
\* the four special names too.
protected_import_HeadOnly(name) ==
    IF Head(name) \in ALLOWED_IMPORT
    THEN IF name \in RealModules
         THEN ImportReturns(Head(name))
         ELSE ImportRaises("ImportError", "No module named")
    ELSE IF Head(name) = "datetime" THEN ImportReturns("datetime")
    ELSE IF Head(name) = "time" THEN ImportReturns("TimeWrapper")
    ELSE IF Head(name) = "dt_util" THEN ImportReturns("dt_util")
    ELSE IF Head(name) = "logging" THEN ImportReturns("ProtectedLogger")
    ELSE ImportRaises("ImportError", "Module not found")

\* protected_import(name): the function bound to __import__.
protected_import(name) ==
    IF Head(name) \in ALLOWED_IMPORT
    THEN IF name \in RealModules
         THEN ImportReturns(Head(name))
         ELSE ImportRaises("ImportError", "No module named")
    ELSE IF name = <<"datetime">> THEN ImportReturns("datetime")
    ELSE IF name = <<"time">> THEN ImportReturns("TimeWrapper")
    ELSE IF name = <<"dt_util">> THEN ImportReturns("dt_util")
    ELSE IF name = <<"logging">> THEN ImportReturns("ProtectedLogger")
    ELSE ImportRaises("ImportError", "Module not found")

\* ------------------------------------------------------------- exceptions

\* The kinds that derive from HomeAssistantError (ScriptError is declared as
\* one; ServiceValidationError is one).
HomeAssistantErrors ==
    {"HomeAssistantError", "ServiceValidationError", "ScriptError"}

\* The kinds that derive from BaseException but not from Exception: an
\* `except Exception` clause does not catch them.
NonExceptions == {"SystemExit", "KeyboardInterrupt"}

IsException(kind) == kind \notin NonExceptions /\ kind # "none"

\* The except clauses of execute around exec(): ScriptError becomes
\* ServiceValidationError, any other Exception becomes HomeAssistantError,
\* anything else propagates unchanged.
TranslateExc(kind) ==
    IF kind = "ScriptError" THEN "ServiceValidationError"
    ELSE IF IsException(kind) THEN "HomeAssistantError"
    ELSE kind

\* ---------------------------------------------------- augmented assignment

\* The largest integer an augmented assignment is applied to.
MaxInt == 3

\* The longest list or text an augmented assignment is applied to.
MaxItems == 2

\* A Python value: the name of its type and what it holds.  An int holds n, a
\* float holds the quotient n / d, a list holds its items and a str holds the
\* code points of its characters.
Value(type, n, d, items) ==
    [type |-> type, n |-> n, d |-> d, items |-> items]

IntValue(n) == Value("int", n, 1, << >>)

ListValue(items) == Value("list", 0, 1, items)

StrValue(items) == Value("str", 0, 1, items)

\* An empty value of a type that holds nothing here (dict, set, tuple, None,
\* an instance of a class of the program).
EmptyValue(type) == Value(type, 0, 1, << >>)

NoValue == EmptyValue("-")

Abs(n) == IF n < 0 THEN -n ELSE n

RECURSIVE Gcd(_, _)
Gcd(a, b) == IF b = 0 THEN a ELSE Gcd(b, a % b)

\* The float n / d, for d other than 0, in lowest terms.
FloatValue(n, d) ==
    LET g == Gcd(Abs(n), Abs(d))
        s == IF d < 0 THEN -1 ELSE 1
    IN  Value("float", s * (n \div g), s * (d \div g), << >>)

\* The types isinstance(target, (list, Number, str)) accepts: bool, int, float
\* and complex are registered as Number.
TargetTypes == {"list", "str", "int", "bool", "float", "complex"}

\* What a call gives: the exception it raises or the value it returns.
OpRaises(kind, msg) == [exc |-> kind, msg |-> msg, value |-> NoValue]

OpReturns(v) == [exc |-> "none", msg |-> "", value |-> v]

RECURSIVE Power(_, _)
Power(a, b) == IF b = 0 THEN 1 ELSE a * Power(a, b - 1)

\* int.__floordiv__ and int.__mod__ round towards minus infinity.
Floordiv(a, b) == IF b > 0 THEN a \div b ELSE (-a) \div (-b)

Modulo(a, b) == a - b * Floordiv(a, b)

\* The bitwise operations of int, which is in two's complement without end.
RECURSIVE BitAnd(_, _)
BitAnd(a, b) ==
    IF a = 0 \/ b = 0 THEN 0
    ELSE IF a = -1 THEN b
    ELSE IF b = -1 THEN a
    ELSE (a % 2) * (b % 2) + 2 * BitAnd(a \div 2, b \div 2)

RECURSIVE BitOr(_, _)
BitOr(a, b) ==
    IF a = 0 THEN b
    ELSE IF b = 0 THEN a
    ELSE IF a = -1 \/ b = -1 THEN -1
    ELSE (IF a % 2 = 1 \/ b % 2 = 1 THEN 1 ELSE 0)
         + 2 * BitOr(a \div 2, b \div 2)

RECURSIVE BitXor(_, _)
BitXor(a, b) ==
    IF a = 0 THEN b
    ELSE IF b = 0 THEN a
    ELSE IF a = -1 THEN -b - 1
    ELSE IF b = -1 THEN -a - 1
    ELSE (((a % 2) + (b % 2)) % 2) + 2 * BitXor(a \div 2, b \div 2)

\* items repeated n times; no item when n is not positive.
RECURSIVE Repeat(_, _)
Repeat(items, n) == IF n <= 0 THEN << >> ELSE items \o Repeat(items, n - 1)

IsSequenceValue(v) == v.type \in {"list", "str"}

\* The functions of the module operator that the table names, applied to two
\* values.
ApplyOperator(fun, a, b) ==
    LET ints == a.type = "int" /\ b.type = "int"
        unsupported == OpRaises("TypeError", "unsupported operand type(s)")
    IN  CASE fun = "add" ->
                 IF ints THEN OpReturns(IntValue(a.n + b.n))
                 ELSE IF IsSequenceValue(a) /\ b.type = a.type
                 THEN OpReturns(Value(a.type, 0, 1, a.items \o b.items))
                 ELSE unsupported
          \* a += b: list.__iadd__ extends the list by any sequence, the
          \* other types have no __iadd__ and fall back to __add__
          [] fun = "iadd" ->
                 IF ints THEN OpReturns(IntValue(a.n + b.n))
                 ELSE IF a.type = "list" /\ IsSequenceValue(b)
                 THEN OpReturns(Value(a.type, 0, 1, a.items \o b.items))
                 ELSE IF a.type = "str" /\ b.type = "str"
                 THEN OpReturns(Value(a.type, 0, 1, a.items \o b.items))
                 ELSE unsupported
          [] fun = "sub" ->
                 IF ints THEN OpReturns(IntValue(a.n - b.n)) ELSE unsupported
          [] fun = "mul" ->
                 IF ints THEN OpReturns(IntValue(a.n * b.n))
                 ELSE IF IsSequenceValue(a) /\ b.type = "int"
                 THEN OpReturns(Value(a.type, 0, 1, Repeat(a.items, b.n)))
                 ELSE IF a.type = "int" /\ IsSequenceValue(b)
                 THEN OpReturns(Value(b.type, 0, 1, Repeat(b.items, a.n)))
                 ELSE unsupported
          [] fun = "truediv" ->
                 IF ~ints THEN unsupported
                 ELSE IF b.n = 0
                 THEN OpRaises("ZeroDivisionError", "division by zero")
                 ELSE OpReturns(FloatValue(a.n, b.n))
          [] fun = "floordiv" ->
                 IF ~ints THEN unsupported
                 ELSE IF b.n = 0
                 THEN OpRaises("ZeroDivisionError", "division by zero")
                 ELSE OpReturns(IntValue(Floordiv(a.n, b.n)))
          [] fun = "mod" ->
                 IF ints
                 THEN IF b.n = 0
                      THEN OpRaises("ZeroDivisionError", "division by zero")
                      ELSE OpReturns(IntValue(Modulo(a.n, b.n)))
                 ELSE IF a.type = "str"
                 \* a text without conversion specifier: a list is taken for
                 \* a mapping of named arguments and none is asked for
                 THEN IF b.type = "list" THEN OpReturns(a)
                      ELSE OpRaises("TypeError", "not all arguments converted")
                 ELSE unsupported
          [] fun = "pow" ->
                 IF ~ints THEN unsupported
                 ELSE IF b.n >= 0 THEN OpReturns(IntValue(Power(a.n, b.n)))
                 ELSE IF a.n = 0
                 THEN OpRaises("ZeroDivisionError", "0 to a negative power")
                 ELSE OpReturns(FloatValue(1, Power(a.n, -b.n)))
          [] fun = "lshift" ->
                 IF ~ints THEN unsupported
                 ELSE IF b.n < 0
                 THEN OpRaises("ValueError", "negative shift count")
                 ELSE OpReturns(IntValue(a.n * Power(2, b.n)))
          [] fun = "rshift" ->
                 IF ~ints THEN unsupported
                 ELSE IF b.n < 0
                 THEN OpRaises("ValueError", "negative shift count")
                 ELSE OpReturns(IntValue(Floordiv(a.n, Power(2, b.n))))
          [] fun = "and_" ->
                 IF ints THEN OpReturns(IntValue(BitAnd(a.n, b.n)))
                 ELSE unsupported
          [] fun = "xor" ->
                 IF ints THEN OpReturns(IntValue(BitXor(a.n, b.n)))
                 ELSE unsupported
          [] fun = "or_" ->
                 IF ints THEN OpReturns(IntValue(BitOr(a.n, b.n)))
                 ELSE unsupported
          \* no int, list or str has __matmul__
          [] fun = "matmul" -> unsupported

\* The table with the in-place function for +=, which is what the native
\* statement uses.
IOPERATOR_TO_OPERATOR_Native ==
    [sym \in {"%=", "&=", "**=", "*=", "+=", "-=", "//=", "/=", "<<=", ">>=",
              "@=", "^=", "|="} |->
        CASE sym = "%=" -> "mod"       [] sym = "&=" -> "and_"
          [] sym = "**=" -> "pow"      [] sym = "*=" -> "mul"
          [] sym = "+=" -> "iadd"      [] sym = "-=" -> "sub"
          [] sym = "//=" -> "floordiv" [] sym = "/=" -> "truediv"
          [] sym = "<<=" -> "lshift"   [] sym = ">>=" -> "rshift"
          [] sym = "@=" -> "matmul"    [] sym = "^=" -> "xor"
          [] sym = "|=" -> "or_"]

\* The table with two of its functions exchanged.
IOPERATOR_TO_OPERATOR_Swapped ==
    [sym \in {"%=", "&=", "**=", "*=", "+=", "-=", "//=", "/=", "<<=", ">>=",
              "@=", "^=", "|="} |->
        CASE sym = "%=" -> "mod"       [] sym = "&=" -> "and_"
          [] sym = "**=" -> "pow"      [] sym = "*=" -> "mul"
          [] sym = "+=" -> "add"       [] sym = "-=" -> "sub"
          [] sym = "//=" -> "floordiv" [] sym = "/=" -> "truediv"
          [] sym = "<<=" -> "rshift"   [] sym = ">>=" -> "lshift"
          [] sym = "@=" -> "matmul"    [] sym = "^=" -> "xor"
          [] sym = "|=" -> "or_"]

IOPERATOR_TO_OPERATOR ==
    [sym \in {"%=", "&=", "**=", "*=", "+=", "-=", "//=", "/=", "<<=", ">>=",
              "@=", "^=", "|="} |->
        CASE sym = "%=" -> "mod"       [] sym = "&=" -> "and_"
          [] sym = "**=" -> "pow"      [] sym = "*=" -> "mul"
          [] sym = "+=" -> "add"       [] sym = "-=" -> "sub"
          [] sym = "//=" -> "floordiv" [] sym = "/=" -> "truediv"
          [] sym = "<<=" -> "lshift"   [] sym = ">>=" -> "rshift"
          [] sym = "@=" -> "matmul"    [] sym = "^=" -> "xor"
          [] sym = "|=" -> "or_"]

\* The functions of the module operator that update their first argument
\* when it is a list and return it.
InPlaceOperators == {"iadd"}

\* guarded_inplacevar without its check of the type of the target.
guarded_inplacevar_AnyTarget(op, target, operand) ==
    IF op \notin DOMAIN IOPERATOR_TO_OPERATOR
    THEN OpRaises("ScriptError", "operation is not allowed")
    ELSE ApplyOperator(IOPERATOR_TO_OPERATOR[op], target, operand)

guarded_inplacevar(op, target, operand) ==
    IF target.type \notin TargetTypes
    THEN OpRaises("ScriptError", "operation is not allowed on a type")
    ELSE IF op \notin DOMAIN IOPERATOR_TO_OPERATOR
    THEN OpRaises("ScriptError", "operation is not allowed")
    ELSE ApplyOperator(IOPERATOR_TO_OPERATOR[op], target, operand)

\* ------------------------------------------------------------ the program

\* The keys and literal values a program assigns into `output`.
Keys == {"a", "b"}

Vals == {1, 2}

\* The logging levels a program uses (DEBUG, WARNING).
Levels == {10, 30}

\* The messages a program logs: "%d" stands for a format string whose
\* argument does not fit it, so that LogRecord.getMessage() raises.
Messages == {"msg", "%d"}

\* The exceptions a program raises by itself: one that derives from
\* Exception, one that derives from BaseException only.
RaisedKinds == {"ZeroDivisionError", "SystemExit"}

\* The attribute reads the programs of the call model make.
ProgReads ==
    {<<"hass", <<"states">>>>, <<"hass", <<"config">>>>,
     <<"hass", <<"async_", "stop">>>>, <<"states", <<"set">>>>,
     <<"other", <<"_", "private">>>>}

\* Whether the value of the attribute can be called.
IsCallable(obj, name) ==
    \/ obj = "hass" /\ name = <<"async_", "stop">>
    \/ obj = "states" /\ name = <<"set">>

\* One statement of a program.  kind says what it does, the other fields are
\* its operands; caught says it sits in a `try: ... except Exception: pass`.
Stmt(kind, obj, name, key, val, call, caught) ==
    [kind |-> kind, obj |-> obj, name |-> name, key |-> key, val |-> val,
     call |-> call, caught |-> caught]

NoStmt == Stmt("none", "-", << >>, "-", 0, FALSE, FALSE)

Stmts ==
    {Stmt("assign", "-", << >>, k, v, FALSE, FALSE) : k \in Keys, v \in Vals}
      \cup {Stmt("print", "module", << >>, t, 0, FALSE, FALSE) :
                t \in {"test1"}}
      \cup {Stmt("log", "-", << >>, m, l, FALSE, FALSE) :
                m \in Messages, l \in Levels}
      \cup {Stmt("attr", r[1], r[2], "-", 0, c, t) :
                r \in ProgReads, c \in BOOLEAN, t \in BOOLEAN}
      \cup {Stmt("getattr", r[1], r[2], "-", 0, c, FALSE) :
                r \in ProgReads, c \in BOOLEAN}
      \cup {Stmt("hasattr", r[1], r[2], "-", 0, FALSE, FALSE) : r \in ProgReads}
      \cup {Stmt("import", "-", n, "-", 0, FALSE, FALSE) :
                n \in {<<"math">>, <<"operator">>, <<"os">>}}
      \cup {Stmt("raise", "-", << >>, k, 0, FALSE, t) :
                k \in RaisedKinds, t \in BOOLEAN}

\* The statements of the programs that print: print at the level of the
\* module and inside a function, print(..., file=f) for an object f of the
\* program that has a write method, an assignment into `output`, and the two
\* kinds of exception.
StmtsPrint ==
    {Stmt("print", sc, << >>, t, 0, FALSE, FALSE) :
        sc \in {"module", "function"}, t \in {"test1", "test2"}}
      \cup {Stmt("print", "module", <<"file">>, "test1", 0, FALSE, FALSE)}
      \cup {Stmt("assign", "-", << >>, "a", 1, FALSE, FALSE)}
      \cup {Stmt("raise", "-", << >>, k, 0, FALSE, FALSE) : k \in RaisedKinds}

\* The sources that are run more than once, each a sequence of statements.
\* "random" stands for output["a"] = random.randint(1, 2) and "read" for
\* output["a"] = 1 if hass.states.get("light.x") else 2.
Sources ==
    [literal |-> <<Stmt("assign", "-", << >>, "a", 1, FALSE, FALSE)>>,
     random |-> <<Stmt("random", "-", << >>, "a", 0, FALSE, FALSE)>>,
     reads |-> <<Stmt("read", "states", <<"get">>, "a", 0, FALSE, FALSE)>>,
     sets |-> <<Stmt("attr", "states", <<"set">>, "-", 0, TRUE, FALSE)>>,
     logs |-> <<Stmt("log", "-", << >>, "%d", 30, FALSE, FALSE)>>,
     exits |-> <<Stmt("raise", "-", << >>, "SystemExit", 0, FALSE, FALSE)>>]

\* ---------------------------------------------------------------- the host

Entity == "light.x"

\* What calling the value of obj.name does to the host.
CallHost(obj, name, h) ==
    IF obj = "states" /\ name = <<"set">>
    THEN [h EXCEPT !.entities = @ \cup {Entity}]
    ELSE IF obj = "hass" /\ name = <<"async_", "stop">>
    THEN [h EXCEPT !.running = FALSE]
    ELSE h

\* Draws where an assignment of a literal gives any value.
Draws_AnyLiteral(s, h) ==
    IF s.kind \in {"random", "assign"}
    THEN {Stmt("assign", "-", << >>, s.key, v, FALSE, FALSE) : v \in Vals}
    ELSE IF s.kind = "read"
    THEN {Stmt("assign", "-", << >>, s.key,
               IF Entity \in h.entities THEN 1 ELSE 2, FALSE, FALSE)}
    ELSE {s}

\* What a statement of a source does when it is executed with the host as h:
\* a random number is any of the values, a reading of the host is what the
\* host holds, every other statement is itself.
Draws(s, h) ==
    IF s.kind = "random"
    THEN {Stmt("assign", "-", << >>, s.key, v, FALSE, FALSE) : v \in Vals}
    ELSE IF s.kind = "read"
    THEN {Stmt("assign", "-", << >>, s.key,
               IF Entity \in h.entities THEN 1 ELSE 2, FALSE, FALSE)}
    ELSE {s}

\* ------------------------------------------------------------- tool result

EmptyMap == [k \in {} |-> 0]

\* The value python_code_execute binds to its local `output`: the object
\* execute returned, or the error descriptor built in the except clause.
\* object is the type of the object ("dict", "int", "None"), n its number
\* when it is an int, map its entries when it is a dict.
OutputObject(object, n, m) ==
    [isError |-> FALSE, map |-> m, error |-> "", error_text |-> << >>,
     object |-> object, n |-> n]

OutputMap(m) == OutputObject("dict", 0, m)

OutputError(kind, text) ==
    [isError |-> TRUE, map |-> EmptyMap, error |-> kind, error_text |-> text,
     object |-> "dict", n |-> 0]

\* `not output` of python_code_execute: an error descriptor has a key.
IsEmptyOutput(o) ==
    /\ ~o.isError
    /\ CASE o.object = "dict" -> DOMAIN o.map = {}
         [] o.object = "int" -> o.n = 0
         [] OTHER -> TRUE

RECURSIVE Join(_)
\* "".join(printed)
Join(fragments) ==
    IF fragments = << >> THEN << >>
    ELSE Head(fragments) \o Join(Tail(fragments))

\* n copies of a record: what one logging call appends to the list shared by
\* the n handlers attached to the script logger.
Copies(n, r) == [i \in 1..n |-> r]

\* LogRecord.getMessage() raises for such a record.
GetMessageFails(r) == r.msg = "%d"

\* The result without `del result["output"]`.
BuildResult_KeepOutput(o, fragments, records) ==
    [keys |-> {"output"}
                \cup (IF fragments # << >> THEN {"printed"} ELSE {})
                \cup (IF records # << >> THEN {"logs"} ELSE {}),
     output |-> o,
     printed |-> Join(fragments),
     logs |-> [i \in 1..Len(records) |->
                 [level |-> records[i].level, msg |-> records[i].msg]]]

\* Lines 64-75: the result built from output, printed and the handler's logs.
BuildResult(o, fragments, records) ==
    [keys |-> (IF fragments # << >> /\ IsEmptyOutput(o) THEN {} ELSE {"output"})
                \cup (IF fragments # << >> THEN {"printed"} ELSE {})
                \cup (IF records # << >> THEN {"logs"} ELSE {}),
     output |-> o,
     printed |-> Join(fragments),
     logs |-> [i \in 1..Len(records) |->
                 [level |-> records[i].level, msg |-> records[i].msg]]]

NoResult ==
    [keys |-> {}, output |-> OutputMap(EmptyMap), printed |-> << >>,
     logs |-> << >>]

\* ------------------------------------------------------------------ state

VARIABLES
    pc,         \* where the call in progress stands ("Idle": none in progress)
    calls,      \* calls of python_code_execute that have ended
    compiled,   \* compile_restricted_exec(source): has it errors, warnings
    output,     \* restricted_globals["output"]
    printed,    \* the list `printed` of python_code_execute
    classLogs,  \* MyHandler.logs, the list declared on the class
    handlers,   \* the MyHandler instances attached to the script logger
    host,       \* the state behind the host handle
    exc,        \* the exception that is propagating, if any
    steps,      \* statements executed so far, all calls together
    hooks,      \* guard hooks that ran in this call
    execs,      \* times exec(compiled.code) was reached in this call
    hostBefore, \* host as it was when this call started
    attempt,    \* what the program of this call did with forbidden attributes
    outcome,    \* how the last ended call left python_code_execute
    program,    \* what the program of this call has done so far
    run,        \* the source being run, and what each source gave first
    inv,        \* two invocations that overlap, each with its own locals
    probe,      \* one call of a hook on its own, and what it gave
    inplace,    \* one call of guarded_inplacevar on its own, and what it gave
    arg,        \* the argument `data` of the call in progress
    namespace,  \* restricted_globals of the last exec, beyond its fixed names
    earlier,    \* what the programs of the calls before this one did
    warned,     \* TimeWrapper.warned, the variable of the class
    sleeps,     \* the calls of TimeWrapper.sleep, each with its position
    functionTool, \* a PowerFunctionTool: its function, schema and last call
    registry,   \* hass.data[DOMAIN] and the calls of async_register_tool
    flow,       \* a recursive data flow: its generator, step and data
    script      \* a call of DynamicScriptTool.async_call and its script task

vars ==
    <<pc, calls, compiled, output, printed, classLogs, handlers, host, exc,
      steps, hooks, execs, hostBefore, attempt, outcome, program, run, inv,
      probe, inplace, arg, namespace, earlier, warned, sleeps, functionTool,
      registry, flow, script>>

\* The variables of TimeWrapper.
clockVars == <<warned, sleeps>>

\* The variables of what lies outside python_code_execute.
platformVars == <<clockVars, functionTool, registry, flow, script>>

\* The variables of the calls made to one function on its own, and those of
\* what lies outside python_code_execute.
pureVars == <<probe, inplace, platformVars>>

NoExc == [kind |-> "none", text |-> << >>]

\* Nothing forbidden was tried.  A forbidden attribute is one of a host owner
\* that the owner's table does not name.  read is the name ("_getattr_",
\* "getattr", "hasattr") through which the program last read a forbidden
\* attribute of the host handle itself, call says that it called a forbidden
\* attribute, yielded that the value of one reached the program, invoked that
\* such a call reached the host, swallowed that the program caught the
\* exception of a forbidden read in its own try/except.
NoAttempt ==
    [read |-> "none", call |-> FALSE, yielded |-> FALSE, invoked |-> FALSE,
     swallowed |-> FALSE]

\* The program has done nothing.  assignsOnly says that every statement it
\* executed assigned a literal to a key of `output`, wrote that one did, said
\* lists its calls of
\* print in the order it made them: the text, the scope the call stands in
\* and whether it named a file.
\* bound are the names it bound, stored says it wrote into `data`, rebinds
\* lists the objects it bound to the name `output`, late holds the entries
\* it wrote through that name since it last did.
NoProgram ==
    [assignsOnly |-> TRUE, wrote |-> FALSE, said |-> << >>, bound |-> {},
     stored |-> FALSE, rebinds |-> << >>, late |-> EmptyMap]

\* The argument `data` of python_code_execute: given says the caller passed
\* a mapping and not None, map is what the mapping held when it was passed.
DataArg(given, map) == [given |-> given, map |-> map]

NoArg == DataArg(FALSE, EmptyMap)

\* The global names a program binds by itself.
Names == {"x", "y"}

\* The mappings a caller passes as `data`.
Args ==
    {NoArg, DataArg(TRUE, EmptyMap)}
      \cup {DataArg(TRUE, [k \in {"a"} |-> v]) : v \in Vals}

\* The name `output` refers to the mapping of line 284.
NoRebound == [is |-> FALSE, object |-> "dict", n |-> 0, map |-> EmptyMap]

\* No namespace has been built.
NoNamespace ==
    [names |-> {}, alias |-> FALSE, data |-> EmptyMap, rebound |-> NoRebound]

\* execute that returns the mapping it made, whatever the name refers to.
execute_return_Original(original, globals) == OutputMap(original)

\* `return restricted_globals["output"]` (line 303): the object the name
\* refers to when the program has ended.  original is what the mapping of
\* line 284 holds.
execute_return(original, globals) ==
    IF globals.rebound.is
    THEN OutputObject(globals.rebound.object, globals.rebound.n,
                      globals.rebound.map)
    ELSE OutputMap(original)

\* restricted_globals that keeps the names of the namespace before it.
restricted_globals_Kept(data) ==
    [names |-> namespace.names,
     alias |-> data.given /\ DOMAIN data.map # {},
     data |-> IF data.given THEN data.map ELSE EmptyMap,
     rebound |-> NoRebound]

\* Lines 271-285, the entries a program can change: the global names beyond
\* those of the dictionary literal (none), and `data`, which is the mapping
\* of the caller when that is given and not empty (alias) and a new empty
\* mapping otherwise.  `output` is the variable output.
restricted_globals(data) ==
    [names |-> {},
     alias |-> data.given /\ DOMAIN data.map # {},
     data |-> IF data.given THEN data.map ELSE EmptyMap,
     rebound |-> NoRebound]

\* No call before this one: the names the programs bound, whether one wrote
\* into `output`, whether one wrote into `data`.
NoEarlier == [names |-> {}, wrote |-> FALSE, stored |-> FALSE]

\* No source is being run and none has been.  name and rest are the source of
\* the call in progress and its statements still to execute; first gives,
\* for each source, the `output` execute had at the end of its first run that
\* reached the end, and the call that was.
NoRun ==
    [name |-> "none", rest |-> << >>,
     first |-> [n \in DOMAIN Sources |->
                   [seen |-> FALSE, call |-> 0, output |-> EmptyMap]]]

\* The invocations that overlap.
Invocations == {1, 2}

\* An invocation that has not started: where it stands, the `output` of its
\* namespace, the result it returned, and what its program did: the records
\* it logged and the entries it wrote.
NoInvocation ==
    [pc |-> "Idle", output |-> EmptyMap, result |-> NoResult,
     logged |-> << >>, wrote |-> {}]

\* The handler the call in progress installed.
Handler == calls + 1

\* A call of the function the namespace binds to the name fn, before it is made.
Probe(fn, obj, name) ==
    [fn |-> fn, obj |-> obj, name |-> name, done |-> FALSE, exc |-> "none",
     msg |-> "", yields |-> FALSE, mod |-> "none"]

NoProbe == Probe("none", "-", << >>)

\* The callers of TimeWrapper.sleep: threads of the process, each with the
\* wrapper instance of the program it runs.
Sleepers == {1, 2, 3}

\* A caller that is not in sleep.  n is the number of the call among all
\* calls of sleep in the order they started, late says the flag was set
\* when the call started.
NoSleep == [pc |-> "idle", n |-> 0, late |-> FALSE]

\* No call of sleep has been made: the calls started, the caller of each,
\* the numbers of the calls that emitted the warning in the order they did,
\* the calls that reached time.sleep, those that returned, and where each
\* caller stands.
NoSleeps ==
    [started |-> 0, by |-> << >>, emitted |-> << >>, delegated |-> {},
     returned |-> {}, of |-> [c \in Sleepers |-> NoSleep]]

\* The names a function gives its parameters.
ParamNames ==
    {"hass", "llm_context", "platform", "device_id", "required_arg",
     "optional_arg"}

\* The attributes of llm.LLMContext (src/tests/conftest.py gives each one).
LLMContextAttributes ==
    {"platform", "context", "user_prompt", "language", "assistant",
     "device_id"}

\* The parameters the platform provides: lines 341-344 and 367-372 test the
\* same three conditions.
IsProvided(name) ==
    \/ name \in {"hass", "llm_context"}
    \/ name \in LLMContextAttributes

\* The value the platform gives a provided parameter.
ProvidedValue(name) ==
    CASE name = "hass" -> <<"hass">>
      [] name = "llm_context" -> <<"llm_context">>
      [] OTHER -> <<"llm_context", name>>

\* What the LLM sends for the argument of a name.
LLMValue(name) == <<"llm", name>>

\* PowerFunctionTool.__init__, lines 338-356: the schema has a key for each
\* parameter that is not provided, Required when it has no default.
\* signature maps each parameter of the function to whether it has one.
ParametersSchema(signature) ==
    [n \in {q \in DOMAIN signature : ~IsProvided(q)} |->
        IF signature[n] THEN "Optional" ELSE "Required"]

\* async_call that keeps the argument of the LLM when there is one.
async_call_KeepsArgs(signature, tool_args) ==
    [n \in DOMAIN tool_args \cup {q \in DOMAIN signature : IsProvided(q)} |->
        IF n \in DOMAIN tool_args THEN tool_args[n] ELSE ProvidedValue(n)]

\* PowerFunctionTool.async_call, lines 365-372: kwargs is tool_args, in
\* which every provided parameter of the function is assigned its value.
async_call(signature, tool_args) ==
    [n \in DOMAIN tool_args \cup {q \in DOMAIN signature : IsProvided(q)} |->
        IF n \in DOMAIN signature /\ IsProvided(n) THEN ProvidedValue(n)
        ELSE tool_args[n]]

\* No tool has been made from a function.
NoFunctionTool ==
    [made |-> FALSE, signature |-> EmptyMap, parameters |-> EmptyMap,
     called |-> FALSE, tool_args |-> EmptyMap, kwargs |-> EmptyMap]

\* The tools handed to async_register_tool: instances of PowerLLMTool with
\* their name, instances of llm.Tool that are not, and functions with their
\* __name__.
Candidates ==
    {[kind |-> "PowerLLMTool", name |-> n] : n \in {"foo", "bar"}}
      \cup {[kind |-> "llm.Tool", name |-> n] : n \in {"foo"}}
      \cup {[kind |-> "function", name |-> n] :
                n \in {"foo", "async_foo", "baz"}}

\* PowerFunctionTool.__init__, lines 304-306: the name of the tool made from
\* a function is the function's name without a leading "async_".
ToolName(tool) ==
    IF tool.kind = "function" /\ tool.name = "async_foo" THEN "foo"
    ELSE tool.name

\* async_register_tool that keeps the tool a name already has.
async_register_tool_KeepsFirst(tools, tool, id) ==
    IF tool.kind = "llm.Tool"
    THEN [raised |-> "TypeError", warning |-> FALSE, tools |-> tools]
    ELSE [raised |-> "none",
          warning |-> ToolName(tool) \in DOMAIN tools,
          tools |-> tools @@ (ToolName(tool) :> id)]

\* async_register_tool, lines 380-392; id tells the tool object from the
\* others.
async_register_tool(tools, tool, id) ==
    IF tool.kind = "llm.Tool"
    THEN [raised |-> "TypeError", warning |-> FALSE, tools |-> tools]
    ELSE [raised |-> "none",
          warning |-> ToolName(tool) \in DOMAIN tools,
          tools |-> (ToolName(tool) :> id) @@ tools]

\* No tool is registered: hass.data[DOMAIN], the warnings logged, and the
\* calls made, each with the tool, the name it went under and what it raised.
NoRegistry == [tools |-> EmptyMap, warnings |-> << >>, history |-> << >>]

\* The schema of a flow: the sections nested in each step, in the order the
\* schema declares them.  "flow" stands for config_step_generator itself,
\* whose sections are the schemas of the data and of the options.
Sections ==
    [flow |-> <<"user", "init">>,
     user |-> <<"account">>,
     account |-> << >>,
     init |-> <<"memory_prompts", "tool_selection">>,
     memory_prompts |-> << >>,
     tool_selection |-> <<"filters">>,
     filters |-> << >>]

\* The steps that go through step_enabled.
NestedSteps == {"account", "memory_prompts", "tool_selection", "filters"}

\* Lines 140-145: the data schema is skipped by an options flow.
RootEnabled(kind, root) == root = "init" \/ kind = "config"

RECURSIVE GeneratorNext_AllSections(_, _, _)
\* The generator without the call of step_enabled.
GeneratorNext_AllSections(kind, enabled, stack) ==
    IF stack = << >> THEN [stack |-> << >>, step |-> "StopIteration"]
    ELSE LET top == stack[Len(stack)]
             rest == SubSeq(stack, 1, Len(stack) - 1)
         IN  IF top.done < Len(Sections[top.step])
             THEN LET child == Sections[top.step][top.done + 1]
                      moved == Append(rest, [top EXCEPT !.done = @ + 1])
                  IN  IF top.step = "flow" /\ ~RootEnabled(kind, child)
                      THEN GeneratorNext_AllSections(kind, enabled, moved)
                      ELSE [stack |-> Append(moved,
                                             [step |-> child, done |-> 0]),
                            step |-> child]
             ELSE GeneratorNext_AllSections(kind, enabled, rest)

RECURSIVE GeneratorNext(_, _, _)
\* next(self.config_step), lines 107-145.  stack holds the frames of the
\* generator, the outermost first: the step each one yielded and how many of
\* its sections it has gone through.  The generator runs until a frame
\* yields a step or the outermost frame ends (StopIteration).
GeneratorNext(kind, enabled, stack) ==
    IF stack = << >> THEN [stack |-> << >>, step |-> "StopIteration"]
    ELSE LET top == stack[Len(stack)]
             rest == SubSeq(stack, 1, Len(stack) - 1)
         IN  IF top.done < Len(Sections[top.step])
             THEN LET child == Sections[top.step][top.done + 1]
                      moved == Append(rest, [top EXCEPT !.done = @ + 1])
                      entered == IF top.step = "flow"
                                 THEN RootEnabled(kind, child)
                                 ELSE child \in enabled
                  IN  IF entered
                      THEN [stack |-> Append(moved,
                                             [step |-> child, done |-> 0]),
                            step |-> child]
                      ELSE GeneratorNext(kind, enabled, moved)
             ELSE GeneratorNext(kind, enabled, rest)

\* No flow has been started.  kind says config or options flow, enabled the
\* steps for which step_enabled gives True, config_step the frames of the
\* generator, current_step_id the step of the form, errors whether the form
\* shows errors, shown the forms shown so far, each with the submission that
\* led to it, data what the steps hold, retries the submissions refused,
\* entries the calls of async_create_entry and entry the data of the last.
NoFlow ==
    [pc |-> "none", kind |-> "config", enabled |-> {}, config_step |-> << >>,
     current_step_id |-> "none", errors |-> FALSE, shown |-> << >>,
     data |-> EmptyMap, retries |-> 0, entries |-> 0, entry |-> EmptyMap,
     raised |-> "none"]

\* Line 21, in seconds.
SCRIPT_TIMEOUT == 3

\* No script was handed to the tool.  input is the script and the setting of
\* the tool, clock the seconds since the wait began, task the state of the
\* task that runs the script, response its service response, error what the
\* run raised, finishedAt the clock when the run ended (-1: not yet,
\* SCRIPT_TIMEOUT + 1: after async_call returned), result what async_call
\* returned or raised.
NoScript ==
    [pc |-> "none", input |-> [form |-> "none", exposed_only |-> TRUE,
                               unexposed |-> FALSE],
     clock |-> 0, task |-> "none", response |-> "none", error |-> "none",
     finishedAt |-> -1, result |-> "none"]

PlatformInit ==
    /\ script = NoScript
    /\ flow = NoFlow
    /\ warned = FALSE
    /\ sleeps = NoSleeps
    /\ functionTool = NoFunctionTool
    /\ registry = NoRegistry

CallInit ==
    /\ PlatformInit
    /\ pc = "Idle"
    /\ calls = 0
    /\ compiled = [errors |-> FALSE, warnings |-> FALSE]
    /\ output = EmptyMap
    /\ printed = << >>
    /\ classLogs = << >>
    /\ handlers = {}
    /\ host = [entities |-> {}, running |-> TRUE]
    /\ exc = NoExc
    /\ steps = 0
    /\ hooks = 0
    /\ execs = 0
    /\ hostBefore = [entities |-> {}, running |-> TRUE]
    /\ attempt = NoAttempt
    /\ outcome = [kind |-> "none", exc |-> "none", result |-> NoResult]
    /\ program = NoProgram
    /\ run = NoRun
    /\ arg = NoArg
    /\ namespace = NoNamespace
    /\ earlier = NoEarlier

\* A call of guarded_inplacevar, before it is made.
\* after is what the object that was the target holds once the call is
\* over, which is what every other reference to it sees; same says that the
\* call returned that very object.
Inplace(op, target, operand) ==
    [op |-> op, target |-> target, operand |-> operand, done |-> FALSE,
     exc |-> "none", msg |-> "", value |-> NoValue, after |-> target,
     same |-> FALSE]

NoInplace == Inplace("none", NoValue, NoValue)

Init ==
    /\ CallInit
    /\ probe = NoProbe
    /\ inplace = NoInplace
    /\ inv = [i \in Invocations |-> NoInvocation]

\* Logger.handle: every attached handler appends the record to its `logs`,
\* which is the one list of the class.
Emit(level, msg) ==
    classLogs \o Copies(Cardinality(handlers),
                        [level |-> level, msg |-> msg, call |-> Handler])

\* A logging call fits the bound on the shared list.
RoomToLog == Len(classLogs) + Cardinality(handlers) + 1 <= MaxLogs

\* python_code_execute, lines 51-57: install the handler, bind printed, enter
\* execute.  The source decides what the compiler will report.  max is the
\* number of calls a behaviour makes.
Enter(max) ==
    /\ pc = "Idle"
    /\ calls < max
    /\ \E e \in BOOLEAN, w \in BOOLEAN :
          /\ w => RoomToLog
          /\ compiled' = [errors |-> e, warnings |-> w]
    /\ handlers' = handlers \cup {Handler}
    /\ printed' = << >>
    /\ pc' = "Compiling"
    /\ exc' = NoExc
    /\ hooks' = 0
    /\ execs' = 0
    /\ hostBefore' = host
    /\ attempt' = NoAttempt
    /\ output' = EmptyMap
    /\ outcome' = [kind |-> "none", exc |-> "none", result |-> NoResult]
    /\ program' = NoProgram
    /\ UNCHANGED <<pureVars, inv, calls, classLogs, host, steps, namespace>>

\* A call with a source of the call model, without `data`.
Call == Enter(MaxCalls) /\ arg' = NoArg /\ UNCHANGED <<run, earlier>>

\* Compile without the test of compiled.errors.
Compile_NoErrorCheck ==
    /\ pc = "Compiling"
    /\ classLogs' = IF compiled.warnings
                    THEN Emit(30, "Warning loading script")
                    ELSE classLogs
    /\ output' = EmptyMap
    /\ namespace' = restricted_globals(arg)
    /\ execs' = execs + 1
    /\ pc' = "Executing"
    /\ UNCHANGED <<pureVars, inv, calls, compiled, printed, handlers, host, exc, steps,
                   hooks, hostBefore, attempt, outcome, program, run, arg,
                   earlier>>

\* execute, lines 166-290: compile; raise ScriptError on errors; otherwise
\* log the warnings, build the namespace and reach exec().
Compile ==
    /\ pc = "Compiling"
    /\ IF compiled.errors
       THEN /\ exc' = [kind |-> "ScriptError", text |-> <<"Compile error">>]
            /\ pc' = "CompileFailed"
            /\ UNCHANGED <<classLogs, output, execs, namespace>>
       ELSE /\ classLogs' = IF compiled.warnings
                            THEN Emit(30, "Warning loading script")
                            ELSE classLogs
            /\ output' = EmptyMap
            /\ namespace' = restricted_globals(arg)
            /\ execs' = execs + 1
            /\ pc' = "Executing"
            /\ exc' = exc
    /\ UNCHANGED <<pureVars, inv, calls, compiled, printed, handlers, host, steps, hooks,
                   hostBefore, attempt, outcome, program, run, arg, earlier>>

\* What one statement gives: the exception it raises or "none", and whether
\* an attribute value reached the program.
Effect(s) ==
    CASE s.kind = "attr" -> protected_getattr(s.obj, s.name)
      [] s.kind = "getattr" -> builtin_getattr(s.obj, s.name)
      [] s.kind = "hasattr" -> builtin_hasattr(s.obj, s.name)
      [] s.kind = "import" ->
            [exc |-> protected_import(s.name).exc,
             msg |-> protected_import(s.name).msg, yields |-> FALSE]
      [] s.kind = "raise" -> Raises(s.key, "raised by the program")
      [] s.kind = "assign" ->
            IF namespace.rebound.is /\ namespace.rebound.object # "dict"
            THEN Raises("TypeError", "object does not support item assignment")
            ELSE Returns(FALSE)
      [] s.kind = "name" ->
            IF s.key \in namespace.names THEN Returns(FALSE)
            ELSE Raises("NameError", "name is not defined")
      [] OTHER -> Returns(FALSE)

\* The statements that go through a hook of restricted_globals: _getattr_
\* (also for logger.<level>), _write_ for output[k] = v, _print_, __import__.
UsesHook(s) ==
    s.kind \in {"attr", "log", "assign", "print", "import", "setdata"}

\* PrintCollector.write of an instance that keeps what it is given in a list
\* of its own: the result shows the list of the instance of the module.
PrintCollector_write_OwnList(scope, buffer, text) ==
    IF scope = "module" THEN Append(buffer, text) ELSE buffer

\* PrintCollector.write: the compiled program makes one instance for each
\* scope that prints (the module, each function), and every instance appends
\* to the one list `printed` of python_code_execute.
PrintCollector_write(scope, buffer, text) == Append(buffer, text)

\* PrintCollector._call_print: print(*objects, file=self) writes the text and
\* then the end of the line; when the program names a file, print writes
\* both to that file.
PrintCollector_call_print(scope, buffer, text, file) ==
    IF file THEN buffer
    ELSE PrintCollector_write(
             scope, PrintCollector_write(scope, buffer, <<text>>), <<"\n">>)

\* exec(compiled.code, restricted_globals), one statement of a program made
\* of the statements S.
Exec(S) ==
    /\ pc = "Executing"
    /\ steps < MaxSteps
    /\ \E s \in S :
          LET r == Effect(s)
              swallowed == r.exc # "none" /\ s.caught /\ IsException(r.exc)
              reads == s.kind \in {"attr", "getattr", "hasattr"}
              forbidden == /\ reads
                           /\ s.obj \in HostOwners
                           /\ s.name \notin AllowedOf(s.obj)
          IN  /\ s.call => IsCallable(s.obj, s.name)
              /\ s.caught => r.exc # "none"
              /\ attempt' =
                    [read |-> IF forbidden /\ s.obj = "hass"
                              THEN IF s.kind = "attr" THEN "_getattr_"
                                   ELSE s.kind
                              ELSE attempt.read,
                     call |-> attempt.call \/ (forbidden /\ s.call),
                     yielded |-> attempt.yielded \/ (forbidden /\ r.yields),
                     invoked |-> attempt.invoked
                                   \/ (forbidden /\ s.call /\ r.yields),
                     swallowed |-> attempt.swallowed
                                     \/ (forbidden /\ swallowed)]
              /\ s.kind = "log" => RoomToLog
              /\ output' = IF s.kind = "assign" /\ ~namespace.rebound.is
                           THEN (s.key :> s.val) @@ output
                           ELSE output
              /\ printed' = IF s.kind = "print"
                            THEN PrintCollector_call_print(
                                     s.obj, printed, s.key,
                                     s.name = <<"file">>)
                            ELSE printed
              /\ program' =
                    [assignsOnly |-> program.assignsOnly /\ s.kind = "assign",
                     wrote |-> program.wrote \/ s.kind = "assign",
                     said |-> IF s.kind = "print"
                              THEN Append(program.said,
                                          [text |-> s.key, scope |-> s.obj,
                                           file |-> s.name = <<"file">>])
                              ELSE program.said,
                     bound |-> IF s.kind = "bind"
                               THEN program.bound \cup {s.key}
                               ELSE program.bound,
                     stored |-> program.stored \/ s.kind = "setdata",
                     rebinds |-> IF s.kind = "rebind"
                                 THEN Append(program.rebinds, s)
                                 ELSE program.rebinds,
                     late |-> IF s.kind = "rebind" THEN EmptyMap
                              ELSE IF s.kind = "assign" /\ r.exc = "none"
                                      /\ program.rebinds # << >>
                              THEN (s.key :> s.val) @@ program.late
                              ELSE program.late]
              /\ namespace' =
                    [namespace EXCEPT
                       !.names = IF s.kind = "bind" THEN @ \cup {s.key}
                                 ELSE @,
                       !.data = IF s.kind = "setdata"
                                THEN (s.key :> s.val) @@ @ ELSE @,
                       !.rebound =
                          IF s.kind = "rebind"
                          THEN [is |-> TRUE, object |-> s.key, n |-> s.val,
                                map |-> IF s.key = "dict" /\ s.val # 0
                                        THEN [k \in {"b"} |-> s.val]
                                        ELSE EmptyMap]
                          ELSE IF s.kind = "assign" /\ r.exc = "none" /\ @.is
                          THEN [@ EXCEPT !.map = (s.key :> s.val) @@ @]
                          ELSE @]
              /\ classLogs' = IF s.kind = "log"
                              THEN Emit(s.val, s.key)
                              ELSE classLogs
              /\ host' = IF r.yields /\ s.call
                         THEN CallHost(s.obj, s.name, host)
                         ELSE host
              /\ hooks' = IF UsesHook(s) THEN hooks + 1 ELSE hooks
              /\ IF r.exc = "none" \/ swallowed
                 THEN pc' = pc /\ exc' = exc
                 ELSE /\ pc' = "Raised"
                      /\ exc' = [kind |-> r.exc, text |-> <<r.msg>>]
    /\ steps' = steps + 1
    /\ UNCHANGED <<pureVars, inv, calls, compiled, handlers, execs, hostBefore,
                   outcome, arg, earlier>>

\* One statement of the programs of the call model.
ExecStep == Exec(Stmts) /\ UNCHANGED run

\* The program ends; execute returns restricted_globals["output"] (line 303).
ExecEnd ==
    /\ pc = "Executing"
    /\ pc' = "Succeeded"
    /\ UNCHANGED <<pureVars, inv, calls, compiled, output, printed, classLogs, handlers,
                   host, exc, steps, hooks, execs, hostBefore, attempt,
                   outcome, program, run, arg, namespace, earlier>>

\* The except clauses when a failure sends the source to the compiler again.
ExecRaise_Retry ==
    /\ pc = "Raised"
    /\ exc' = NoExc
    /\ pc' = "Compiling"
    /\ UNCHANGED <<pureVars, inv, calls, compiled, output, printed, classLogs,
                   handlers, host, steps, hooks, execs, hostBefore, attempt,
                   outcome, program, run, arg, namespace, earlier>>

\* execute, lines 296-301: the except clauses around exec().
ExecRaise ==
    /\ pc = "Raised"
    /\ exc' = [kind |-> TranslateExc(exc.kind),
               text |-> IF exc.kind = "ScriptError"
                        THEN <<"Error executing script">> \o exc.text
                        ELSE IF IsException(exc.kind)
                        THEN <<"Error executing script", exc.kind>> \o exc.text
                        ELSE exc.text]
    /\ pc' = "Failed"
    /\ UNCHANGED <<pureVars, inv, calls, compiled, output, printed, classLogs, handlers,
                   host, steps, hooks, execs, hostBefore, attempt, outcome,
                   program, run, arg, namespace, earlier>>

\* python_code_execute, lines 57-75, when execute returned or raised a
\* HomeAssistantError: bind output, remove the handler, build the result.
\* getMessage() of a record of the shared list may raise (line 70).
ToolReturn ==
    /\ pc \in {"CompileFailed", "Succeeded", "Failed"}
    /\ pc # "Succeeded" => exc.kind \in HomeAssistantErrors
    /\ handlers' = handlers \ {Handler}
    /\ LET o == IF pc = "Succeeded"
                THEN execute_return(output, namespace)
                ELSE OutputError(exc.kind, exc.text)
       IN  outcome' =
             IF \E i \in 1..Len(classLogs) : GetMessageFails(classLogs[i])
             THEN [kind |-> "escaped", exc |-> "TypeError",
                   result |-> NoResult]
             ELSE [kind |-> "returned", exc |-> "none",
                   result |-> BuildResult(o, printed, classLogs)]
    /\ pc' = "Idle"
    /\ calls' = calls + 1
    /\ exc' = NoExc
    /\ output' = EmptyMap
    /\ printed' = << >>
    /\ UNCHANGED <<pureVars, inv, compiled, classLogs, host, steps, hooks, execs, hostBefore,
                   attempt, program, run, arg, namespace, earlier>>

\* python_code_execute when execute raised something that is no
\* HomeAssistantError: `except HomeAssistantError` does not apply, the
\* exception leaves the function at line 57.
ToolEscape ==
    /\ pc = "Failed"
    /\ exc.kind \notin HomeAssistantErrors
    /\ outcome' = [kind |-> "escaped", exc |-> exc.kind, result |-> NoResult]
    /\ pc' = "Idle"
    /\ calls' = calls + 1
    /\ exc' = NoExc
    /\ output' = EmptyMap
    /\ printed' = << >>
    /\ UNCHANGED <<pureVars, inv, compiled, classLogs, handlers, host, steps, hooks, execs,
                   hostBefore, attempt, program, run, arg, namespace, earlier>>

Next ==
    \/ Call
    \/ Compile
    \/ ExecStep
    \/ ExecEnd
    \/ ExecRaise
    \/ ToolReturn
    \/ ToolEscape

Spec == Init /\ [][Next]_vars

\* --------------------------------------------------- programs that print

\* One statement of a program that prints.
ExecPrint == Exec(StmtsPrint) /\ UNCHANGED run

NextPrint ==
    \/ Call
    \/ Compile
    \/ ExecPrint
    \/ ExecEnd
    \/ ExecRaise
    \/ ToolReturn
    \/ ToolEscape

SpecPrint == Init /\ [][NextPrint]_vars

\* python_code_execute is one synchronous function: once it is called the
\* interpreter goes on until it returns or raises.  The compilation finishes,
\* a program that terminates reaches its end unless it raises, and an
\* exception reaches the except clauses.
FairSpec ==
    /\ SpecPrint
    /\ WF_vars(Compile)
    /\ WF_vars(ExecEnd)
    /\ WF_vars(ExecRaise)

\* ------------------------------------------- programs that bind names

\* The statements of the programs that use the namespace: `x = 1` at the
\* level of the module, a read of the name x, `data[k] = v`, `output[k] = v`.
StmtsNames ==
    {Stmt("bind", "-", << >>, n, 1, FALSE, FALSE) : n \in Names}
      \cup {Stmt("name", "-", << >>, n, 0, FALSE, FALSE) : n \in Names}
      \cup {Stmt("setdata", "-", << >>, k, 2, FALSE, FALSE) : k \in Keys}
      \cup {Stmt("assign", "-", << >>, k, 1, FALSE, FALSE) : k \in Keys}

\* A call that passes `data`; what the program of the call before did joins
\* what the earlier ones did.
CallData ==
    /\ Enter(MaxCalls)
    /\ arg' \in Args
    /\ earlier' = [names |-> earlier.names \cup program.bound,
                   wrote |-> earlier.wrote \/ program.wrote,
                   stored |-> earlier.stored \/ program.stored]
    /\ UNCHANGED run

\* One statement of a program that uses the namespace.
ExecNames == Exec(StmtsNames) /\ UNCHANGED run

\* None of these statements raises an exception outside Exception or logs,
\* so every failure of such a program is translated and returned.
NextNames ==
    \/ CallData
    \/ Compile
    \/ ExecNames
    \/ ExecEnd
    \/ ExecRaise
    \/ ToolReturn

SpecNames == Init /\ [][NextNames]_vars

\* ------------------------------------- programs that bind `output` again

\* The statements of the programs that bind `output` again at the level of
\* the module: `output = {}`, `output = {"b": 2}`, `output = 0`,
\* `output = 5`, `output = None`, next to `output[k] = 1` and print.
StmtsRebind ==
    {Stmt("assign", "-", << >>, k, 1, FALSE, FALSE) : k \in Keys}
      \cup {Stmt("print", "module", << >>, "test1", 0, FALSE, FALSE)}
      \cup {Stmt("rebind", "-", << >>, "dict", v, FALSE, FALSE) : v \in {0, 2}}
      \cup {Stmt("rebind", "-", << >>, "int", v, FALSE, FALSE) : v \in {0, 5}}
      \cup {Stmt("rebind", "-", << >>, "None", 0, FALSE, FALSE)}

\* One statement of a program that binds `output` again.
ExecRebind == Exec(StmtsRebind) /\ UNCHANGED run

\* None of these statements raises an exception outside Exception or logs,
\* so every failure of such a program is translated and returned.
NextRebind ==
    \/ Call
    \/ Compile
    \/ ExecRebind
    \/ ExecEnd
    \/ ExecRaise
    \/ ToolReturn

SpecRebind == Init /\ [][NextRebind]_vars

\* ------------------------------------------------ sources run repeatedly

\* The calls a behaviour makes when sources are run again.
MaxRuns == 3

\* A call with one of the sources.
CallSource ==
    /\ Enter(MaxRuns)
    /\ \E n \in DOMAIN Sources :
          run' = [run EXCEPT !.name = n, !.rest = Sources[n]]
    /\ arg' = NoArg
    /\ UNCHANGED earlier

\* The next statement of the source.
ExecSource ==
    /\ run.rest # << >>
    /\ Exec(Draws(Head(run.rest), host))
    /\ run' = [run EXCEPT
                  !.rest = Tail(@),
                  !.first[run.name] =
                      IF Tail(run.rest) = << >> /\ pc' = "Executing" /\ ~@.seen
                      THEN [seen |-> TRUE, call |-> Handler,
                            output |-> output']
                      ELSE @]

\* The source has no statement left.
EndSource == run.rest = << >> /\ ExecEnd

NextRepeat ==
    \/ CallSource
    \/ Compile
    \/ ExecSource
    \/ EndSource
    \/ ExecRaise
    \/ ToolReturn
    \/ ToolEscape

SpecRepeat == Init /\ [][NextRepeat]_vars

\* ------------------------------------------- two invocations that overlap

\* What an invocation that overlaps another leaves alone.
overlapFrame ==
    <<pc, calls, compiled, output, printed, host, exc, hooks, execs,
      hostBefore, attempt, outcome, program, run, probe, inplace, arg,
      namespace, earlier, platformVars>>

\* Lines 51-57 of invocation i: its handler joins those of the script logger
\* and execute builds its namespace.
OverlapEnter(i) ==
    /\ inv[i].pc = "Idle"
    /\ handlers' = handlers \cup {i}
    /\ inv' = [inv EXCEPT ![i].pc = "Running"]
    /\ UNCHANGED <<overlapFrame, classLogs, steps>>

\* One statement of the program of invocation i: an assignment into the
\* `output` of its namespace, or a call of the script logger, which hands the
\* record to every handler attached.
OverlapStep(i) ==
    /\ inv[i].pc = "Running"
    /\ steps < MaxSteps
    /\ \/ \E k \in Keys, v \in Vals :
             /\ inv' = [inv EXCEPT ![i].output = (k :> v) @@ @,
                                   ![i].wrote = @ \cup {<<k, v>>}]
             /\ UNCHANGED classLogs
       \/ \E l \in Levels :
             /\ Len(classLogs) + Cardinality(handlers) <= MaxLogs
             /\ classLogs' =
                    classLogs \o Copies(Cardinality(handlers),
                                        [level |-> l, msg |-> "msg",
                                         call |-> i])
             /\ inv' = [inv EXCEPT
                           ![i].logged =
                               Append(@, [level |-> l, msg |-> "msg"])]
    /\ steps' = steps + 1
    /\ UNCHANGED <<overlapFrame, handlers>>

\* Lines 62-75 of invocation i: remove its handler and build its result from
\* its `output` and log_handler.logs.
OverlapReturn(i) ==
    /\ inv[i].pc = "Running"
    /\ handlers' = handlers \ {i}
    /\ inv' = [inv EXCEPT
                  ![i].pc = "Done",
                  ![i].result =
                      BuildResult(OutputMap(inv[i].output), << >>, classLogs)]
    /\ UNCHANGED <<overlapFrame, classLogs, steps>>

NextOverlap ==
    \E i \in Invocations :
        \/ OverlapEnter(i)
        \/ OverlapStep(i)
        \/ OverlapReturn(i)

SpecOverlap == Init /\ [][NextOverlap]_vars

\* ------------------------------------------------- the hooks on their own

callVars ==
    <<pc, calls, compiled, output, printed, classLogs, handlers, host, exc,
      steps, hooks, execs, hostBefore, attempt, outcome, program, run, arg,
      namespace, earlier>>

\* Every call of _getattr_, getattr and __import__ over the universe.
HooksInit ==
    /\ CallInit
    /\ probe \in {Probe(fn, o, n) :
                     fn \in {"_getattr_", "getattr"}, o \in Objects,
                     n \in AttrNames}
                 \cup {Probe("__import__", "-", n) : n \in ModuleNames}
    /\ inplace = NoInplace
    /\ inv = [i \in Invocations |-> NoInvocation]

\* What the probe becomes once the function has been applied.
Probed(r, m) ==
    [probe EXCEPT !.done = TRUE, !.exc = r.exc, !.msg = r.msg,
                  !.yields = r.yields, !.mod = m]

\* restricted_globals["_getattr_"] is protected_getattr.
HookGetattr ==
    /\ ~probe.done
    /\ probe.fn = "_getattr_"
    /\ probe' = Probed(protected_getattr(probe.obj, probe.name), "none")
    /\ UNCHANGED <<callVars, inplace, inv, platformVars>>

\* extra_builtins["getattr"] is the builtin getattr.
HookBuiltinGetattr ==
    /\ ~probe.done
    /\ probe.fn = "getattr"
    /\ probe' = Probed(builtin_getattr(probe.obj, probe.name), "none")
    /\ UNCHANGED <<callVars, inplace, inv, platformVars>>

\* extra_builtins["__import__"] is protected_import.
HookImport ==
    /\ ~probe.done
    /\ probe.fn = "__import__"
    /\ LET r == protected_import(probe.name)
       IN  probe' = Probed([exc |-> r.exc, msg |-> r.msg, yields |-> FALSE],
                           r.mod)
    /\ UNCHANGED <<callVars, inplace, inv, platformVars>>

HooksNext ==
    \/ HookGetattr
    \/ HookBuiltinGetattr
    \/ HookImport

SpecHooks == HooksInit /\ [][HooksNext]_vars

\* --------------------------------------- guarded_inplacevar on its own

\* The symbols handed to _inplacevar_: the thirteen of the language and one
\* that is none of them.
Symbols == DOMAIN IOPERATOR_TO_OPERATOR \cup {"?="}

\* The sequences of at most n items of S.
RECURSIVE SeqsUpTo(_, _)
SeqsUpTo(S, n) ==
    IF n = 0 THEN {<< >>}
    ELSE LET shorter == SeqsUpTo(S, n - 1)
         IN  shorter \cup {Append(q, x) : q \in shorter, x \in S}

IntValues == {IntValue(n) : n \in -1..MaxInt}

\* Targets of every type: the three the guard lets through, and a dict, a
\* set, a tuple, None and an instance of a class.
Targets ==
    IntValues
        \cup {ListValue(q) : q \in SeqsUpTo({1, 2}, MaxItems)}
        \cup {StrValue(q) : q \in SeqsUpTo({97}, MaxItems)}
        \cup {EmptyValue(t) :
                 t \in {"dict", "set", "tuple", "NoneType", "object"}}

Operands ==
    IntValues
        \cup {ListValue(q) : q \in SeqsUpTo({1}, 1)}
        \cup {StrValue(q) : q \in SeqsUpTo({97}, 1)}

\* Every call of _inplacevar_ over the universe.
InplaceInit ==
    /\ CallInit
    /\ probe = NoProbe
    /\ inplace \in {Inplace(op, t, o) :
                       op \in Symbols, t \in Targets, o \in Operands}
    /\ inv = [i \in Invocations |-> NoInvocation]

\* restricted_globals["_inplacevar_"] is guarded_inplacevar.
HookInplacevar ==
    /\ ~inplace.done
    /\ inplace.op \in Symbols
    /\ LET r == guarded_inplacevar(inplace.op, inplace.target,
                                   inplace.operand)
           updates == /\ r.exc = "none"
                      /\ inplace.target.type = "list"
                      /\ inplace.op \in DOMAIN IOPERATOR_TO_OPERATOR
                      /\ IOPERATOR_TO_OPERATOR[inplace.op] \in InPlaceOperators
       IN  inplace' = [inplace EXCEPT
                         !.done = TRUE, !.exc = r.exc, !.msg = r.msg,
                         !.value = r.value,
                         !.after = IF updates THEN r.value ELSE @,
                         !.same = updates]
    /\ UNCHANGED <<callVars, probe, inv, platformVars>>

SpecInplace == InplaceInit /\ [][HookInplacevar]_vars

\* ------------------------------------------------------- TimeWrapper.sleep

\* The variables of python_code_execute and of its hooks.
sandboxVars == <<callVars, probe, inplace, inv>>

\* The variables sleep leaves alone.
sleepFrame == <<sandboxVars, functionTool, registry, flow, script>>

\* A caller enters sleep (line 312).  alone says that the calls do not
\* overlap.
SleepEnter(c, alone) ==
    /\ sleeps.of[c].pc = "idle"
    /\ sleeps.started < MaxSleeps
    /\ alone => \A d \in Sleepers : sleeps.of[d].pc = "idle"
    /\ sleeps' = [sleeps EXCEPT
                     !.started = @ + 1,
                     !.by = Append(@, c),
                     !.of[c] = [pc |-> "check", n |-> sleeps.started + 1,
                                late |-> warned]]
    /\ UNCHANGED <<sleepFrame, warned>>

\* sleep that takes the flag to be unset whatever it holds.
SleepCheck_Always(c) ==
    /\ sleeps.of[c].pc = "check"
    /\ sleeps' = [sleeps EXCEPT !.of[c].pc = "set"]
    /\ UNCHANGED <<sleepFrame, warned>>

\* `if not TimeWrapper.warned:` (line 314).
SleepCheck(c) ==
    /\ sleeps.of[c].pc = "check"
    /\ sleeps' = [sleeps EXCEPT
                     !.of[c].pc = IF warned THEN "delegate" ELSE "set"]
    /\ UNCHANGED <<sleepFrame, warned>>

\* sleep that leaves the flag as it is.
SleepSet_Never(c) ==
    /\ sleeps.of[c].pc = "set"
    /\ sleeps' = [sleeps EXCEPT !.of[c].pc = "warn"]
    /\ UNCHANGED <<sleepFrame, warned>>

\* `TimeWrapper.warned = True` (line 315).
SleepSet(c) ==
    /\ sleeps.of[c].pc = "set"
    /\ warned' = TRUE
    /\ sleeps' = [sleeps EXCEPT !.of[c].pc = "warn"]
    /\ UNCHANGED sleepFrame

\* _LOGGER.warning(...) (lines 316-318).
SleepWarn(c) ==
    /\ sleeps.of[c].pc = "warn"
    /\ sleeps' = [sleeps EXCEPT
                     !.emitted = Append(@, sleeps.of[c].n),
                     !.of[c].pc = "delegate"]
    /\ UNCHANGED <<sleepFrame, warned>>

\* time.sleep(*args, **kwargs) (line 320) is called and blocks the caller.
SleepDelegate(c) ==
    /\ sleeps.of[c].pc = "delegate"
    /\ sleeps' = [sleeps EXCEPT
                     !.delegated = @ \cup {sleeps.of[c].n},
                     !.of[c].pc = "asleep"]
    /\ UNCHANGED <<sleepFrame, warned>>

\* time.sleep is over and sleep returns.
SleepReturn(c) ==
    /\ sleeps.of[c].pc = "asleep"
    /\ sleeps' = [sleeps EXCEPT
                     !.returned = @ \cup {sleeps.of[c].n},
                     !.of[c] = NoSleep]
    /\ UNCHANGED <<sleepFrame, warned>>

\* The calls of sleep follow one another.
SleepEnterAlone == \E c \in Sleepers : SleepEnter(c, TRUE)

SleepCheckStep == \E c \in Sleepers : SleepCheck(c)

SleepSetStep == \E c \in Sleepers : SleepSet(c)

SleepWarnStep == \E c \in Sleepers : SleepWarn(c)

SleepDelegateStep == \E c \in Sleepers : SleepDelegate(c)

SleepReturnStep == \E c \in Sleepers : SleepReturn(c)

NextSleep ==
    \/ SleepEnterAlone
    \/ SleepCheckStep
    \/ SleepSetStep
    \/ SleepWarnStep
    \/ SleepDelegateStep
    \/ SleepReturnStep

SpecSleep == Init /\ [][NextSleep]_vars

\* The calls of sleep overlap: a caller enters while others are inside, and
\* the threads are switched between any two lines.
SleepEnterAny == \E c \in Sleepers : SleepEnter(c, FALSE)

NextSleepOverlap ==
    \/ SleepEnterAny
    \/ SleepCheckStep
    \/ SleepSetStep
    \/ SleepWarnStep
    \/ SleepDelegateStep
    \/ SleepReturnStep

SpecSleepOverlap == Init /\ [][NextSleepOverlap]_vars

\* ------------------------------------------------------ PowerFunctionTool

\* The signatures of the functions: each maps the parameters to whether
\* they have a default.
Signatures ==
    UNION {[names -> BOOLEAN] : names \in SUBSET ParamNames}

\* The arguments an LLM sends: any of them may carry the name of a provided
\* parameter.
ToolArgs ==
    {[n \in names |-> LLMValue(n)] :
        names \in SUBSET {"hass", "platform", "required_arg"}}

\* PowerFunctionTool(function), lines 296-356.
MakeFunctionTool ==
    /\ ~functionTool.made
    /\ \E signature \in Signatures :
          functionTool' =
             [NoFunctionTool EXCEPT
                !.made = TRUE,
                !.signature = signature,
                !.parameters = ParametersSchema(signature)]
    /\ UNCHANGED <<sandboxVars, clockVars, registry, flow, script>>

\* tool.async_call(hass, tool_input, llm_context) up to the call of the
\* function, lines 358-372.
FunctionToolCall ==
    /\ functionTool.made
    /\ ~functionTool.called
    /\ \E tool_args \in ToolArgs :
          functionTool' =
             [functionTool EXCEPT
                !.called = TRUE,
                !.tool_args = tool_args,
                !.kwargs = async_call(functionTool.signature, tool_args)]
    /\ UNCHANGED <<sandboxVars, clockVars, registry, flow, script>>

NextFunctionTool ==
    \/ MakeFunctionTool
    \/ FunctionToolCall

SpecFunctionTool == Init /\ [][NextFunctionTool]_vars

\* ---------------------------------------------------- async_register_tool

\* One call of async_register_tool.
RegisterTool ==
    /\ Len(registry.history) < MaxRegistrations
    /\ \E tool \in Candidates :
          LET id == Len(registry.history) + 1
              r == async_register_tool(registry.tools, tool, id)
          IN  registry' =
                 [tools |-> r.tools,
                  warnings |-> IF r.warning
                               THEN Append(registry.warnings, ToolName(tool))
                               ELSE registry.warnings,
                  history |-> Append(registry.history,
                                     [tool |-> tool, name |-> ToolName(tool),
                                      raised |-> r.raised,
                                      before |-> registry.tools])]
    /\ UNCHANGED <<sandboxVars, clockVars, functionTool, flow, script>>

SpecRegistry == Init /\ [][RegisterTool]_vars

\* ------------------------------------------------------ RecursiveDataFlow

\* The variables a flow leaves alone.
flowFrame == <<sandboxVars, clockVars, functionTool, registry, script>>

\* The values a user enters in a step.
Entries == {1, 2}

\* The first call of async_step, without input (lines 151-158 and 202-211):
\* the generator is made and gives the first step, whose form is shown.
FlowStart ==
    /\ flow.pc = "none"
    /\ \E kind \in {"config", "options"}, enabled \in SUBSET NestedSteps :
          LET g == GeneratorNext(kind, enabled,
                                 <<[step |-> "flow", done |-> 0]>>)
          IN  flow' = [NoFlow EXCEPT
                         !.pc = "form",
                         !.kind = kind,
                         !.enabled = enabled,
                         !.config_step = g.stack,
                         !.current_step_id = g.step,
                         !.shown = <<[step |-> g.step, after |-> "start"]>>]
    /\ UNCHANGED flowFrame

\* async_step(step_id, user_input) for the step of the form (lines 159-211).
\* The input is written into the data of the step, then validated.
FlowSubmit ==
    /\ flow.pc = "form"
    /\ \E value \in Entries, verdict \in {"valid", "errors", "abort"} :
          LET written == (flow.current_step_id :> value) @@ flow.data
              g == GeneratorNext(flow.kind, flow.enabled, flow.config_step)
          IN  /\ verdict = "errors" => flow.retries < MaxRetries
              /\ flow' =
                    CASE verdict = "abort" ->
                           [flow EXCEPT !.pc = "aborted", !.data = written]
                      [] verdict = "errors" ->
                           [flow EXCEPT
                              !.data = written,
                              !.errors = TRUE,
                              !.retries = @ + 1,
                              !.shown = Append(@, [step |-> flow.current_step_id,
                                                   after |-> "errors"])]
                      [] verdict = "valid" /\ g.step = "StopIteration" ->
                           [flow EXCEPT
                              !.pc = "created",
                              !.data = written,
                              !.config_step = g.stack,
                              !.entries = @ + 1,
                              !.entry = written]
                      [] OTHER ->
                           [flow EXCEPT
                              !.data = written,
                              !.errors = FALSE,
                              !.config_step = g.stack,
                              !.current_step_id = g.step,
                              !.shown = Append(@, [step |-> g.step,
                                                   after |-> "valid"])]
    /\ UNCHANGED flowFrame

\* async_step with the id of another step (lines 159-160).
FlowUnexpectedStep ==
    /\ flow.pc = "form"
    /\ flow.raised = "none"
    /\ flow' = [flow EXCEPT !.raised = "ConfigError"]
    /\ UNCHANGED flowFrame

NextFlow ==
    \/ FlowStart
    \/ FlowSubmit
    \/ FlowUnexpectedStep

SpecFlow == Init /\ [][NextFlow]_vars

\* ------------------------------------------------------ DynamicScriptTool

\* The variables the script tool leaves alone.
scriptFrame == <<sandboxVars, clockVars, functionTool, registry, flow>>

\* The scripts an LLM writes: one action, one action that also has a
\* `sequence` key, a mapping with a `sequence`, an automation with a
\* `trigger`, a mapping with neither.
ScriptForms == {"action", "action+sequence", "sequence", "trigger", "other"}

\* Lines 60-89: what async_call raises before it runs the script.
ScriptRefused(input) ==
    CASE input.form = "action+sequence" -> "RuntimeError"
      [] input.form = "trigger" -> "RuntimeError"
      [] input.form = "other" -> "KeyError"
      [] input.exposed_only /\ input.unexposed -> "RuntimeError"
      [] OTHER -> "none"

\* async_call up to `await shield(create_task(script.async_run(...)))`
\* under timeout(SCRIPT_TIMEOUT), lines 47-93.
ScriptCall ==
    /\ script.pc = "none"
    /\ \E form \in ScriptForms, exposed_only \in BOOLEAN,
          unexposed \in BOOLEAN :
          LET input == [form |-> form, exposed_only |-> exposed_only,
                        unexposed |-> unexposed]
          IN  script' =
                 IF ScriptRefused(input) # "none"
                 THEN [NoScript EXCEPT
                         !.pc = "raised", !.input = input,
                         !.result = ScriptRefused(input)]
                 ELSE [NoScript EXCEPT
                         !.pc = "waiting", !.input = input,
                         !.task = "running"]
    /\ UNCHANGED scriptFrame

\* A second passes while async_call waits for the run.
ScriptTick ==
    /\ script.pc = "waiting"
    /\ script.task = "running"
    /\ script.clock < SCRIPT_TIMEOUT
    /\ script' = [script EXCEPT !.clock = @ + 1]
    /\ UNCHANGED scriptFrame

\* script.async_run ends, with or without a service response, or raises
\* the error of an action (which can be a TimeoutError of its own); it may
\* do so while async_call waits or after async_call returned.
ScriptRunEnds ==
    /\ script.task = "running"
    /\ \E response \in {"none", "empty", "some"},
          error \in {"none", "HomeAssistantError", "TimeoutError"} :
          /\ error # "none" => response = "none"
          /\ script' =
                [script EXCEPT
                   !.task = IF error = "none" THEN "done" ELSE "failed",
                   !.response = response,
                   !.error = error,
                   !.finishedAt = IF script.pc = "waiting" THEN script.clock
                                  ELSE SCRIPT_TIMEOUT + 1]
    /\ UNCHANGED scriptFrame

\* The await gives the result of the run (lines 93 and 100-103) or raises
\* what the run raised, which `except TimeoutError` (line 94) catches when
\* it is a TimeoutError.
ScriptResume ==
    /\ script.pc = "waiting"
    /\ script.task \in {"done", "failed"}
    /\ script' =
          CASE script.error = "TimeoutError" ->
                 [script EXCEPT !.pc = "returned", !.result = "background"]
            [] script.task = "failed" ->
                 [script EXCEPT !.pc = "raised", !.result = script.error]
            [] OTHER ->
                 [script EXCEPT
                    !.pc = "returned",
                    !.result = IF script.response = "some"
                               THEN "service_response" ELSE "success"]
    /\ UNCHANGED scriptFrame

\* The timeout without shield(): the cancellation reaches the task.
ScriptTimeout_Cancels ==
    /\ script.pc = "waiting"
    /\ script.clock = SCRIPT_TIMEOUT
    /\ script' = [script EXCEPT
                     !.pc = "returned",
                     !.result = "background",
                     !.task = IF @ = "running" THEN "cancelled" ELSE @]
    /\ UNCHANGED scriptFrame

\* The timeout expires: the await is cancelled, shield() keeps the
\* cancellation from the task, and TimeoutError is caught (lines 91-98).
\* A run that ends at the very moment the timeout expires can lose to it.
ScriptTimeout ==
    /\ script.pc = "waiting"
    /\ script.clock = SCRIPT_TIMEOUT
    /\ script' = [script EXCEPT !.pc = "returned", !.result = "background"]
    /\ UNCHANGED scriptFrame

NextScript ==
    \/ ScriptCall
    \/ ScriptTick
    \/ ScriptRunEnds
    \/ ScriptResume
    \/ ScriptTimeout

SpecScript == Init /\ [][NextScript]_vars

\* ----------------------------------------------------------------- claims

\* A call has ended and no other has started.
Ended == pc = "Idle" /\ outcome.kind # "none"

\* The call that ended returned a result that describes a failure.
ReturnedFailure == outcome.kind = "returned" /\ outcome.result.output.isError

\* C1: when the compiler reports errors the compiled program is never
\* executed: exec() is not reached, no guard hook runs, the host is as it was
\* when the call started, and execute raises ScriptError with the compiler
\* diagnostics, which is what a returned result then names.
C1_CompileErrorsNeverExecute ==
    compiled.errors =>
        /\ pc \in {"Idle", "Compiling", "CompileFailed"}
        /\ execs = 0
        /\ hooks = 0
        /\ host = hostBefore
        /\ pc = "CompileFailed" =>
              exc = [kind |-> "ScriptError", text |-> <<"Compile error">>]
        /\ (Ended /\ outcome.kind = "returned") =>
              /\ outcome.result.output.isError
              /\ outcome.result.output.error = "ScriptError"
              /\ outcome.result.output.error_text = <<"Compile error">>

\* C1 witness: a call whose source does not compile, made after an earlier
\* call changed the host, has ended with the ScriptError.
C1_Witness ==
    /\ Ended
    /\ compiled.errors
    /\ calls = 2
    /\ hostBefore.entities = {Entity}
    /\ outcome.result.output.error = "ScriptError"

\* C2: the result of a call has exactly one branch: a failed call has a
\* top-level `error` key and no `output` key, a successful call has no
\* `error` key.
C2_ExactlyOneBranch ==
    (Ended /\ outcome.kind = "returned") =>
        IF outcome.result.output.isError
        THEN "error" \in outcome.result.keys /\ "output" \notin outcome.result.keys
        ELSE "error" \notin outcome.result.keys

\* C3: every call of python_code_execute ends by returning a result; no
\* exception leaves it.
C3_NothingEscapes == Ended => outcome.kind = "returned"

\* C4: whenever no call is in progress, the script logger carries no handler
\* that a call installed.
C4_HandlerRemoved == pc = "Idle" => handlers = {}

\* C5: the value of an attribute of the host handle, its event bus, its state
\* store or its service registry that the owner's table does not name never
\* reaches the program.
C5_NoForbiddenAttributeYielded == ~attempt.yielded

\* C6: protected_getattr raises ScriptError for an owner and a name outside
\* the owner's table; for every other pair whose name does not start with
\* async_ it gives what safer_getattr gives, which raises for a name that
\* starts with an underscore.
C6_OwnerTables ==
    (probe.done /\ probe.fn = "_getattr_") =>
        LET outside == probe.obj \in Owners
                          /\ probe.name \notin AllowedOf(probe.obj)
            generic == safer_getattr(probe.obj, probe.name)
        IN  /\ outside => probe.exc = "ScriptError"
            /\ (~outside /\ ~StartsWith(probe.name, "async_")) =>
                  /\ probe.exc = generic.exc
                  /\ probe.msg = generic.msg
                  /\ probe.yields = generic.yields
                  /\ StartsWith(probe.name, "_") => probe.exc = "AttributeError"
                  /\ (~StartsWith(probe.name, "_")
                        /\ ~(probe.obj = "str" /\ probe.name = <<"format">>)) =>
                        probe.exc = "none"

\* C6 witness: reading `ctime`, which is in ALLOWED_TIME only, on the
\* datetime module was refused.
C6_Witness ==
    /\ probe.done
    /\ probe.fn = "_getattr_"
    /\ probe.obj = "datetime"
    /\ probe.name = <<"ctime">>
    /\ probe.exc = "ScriptError"

\* C7: for every object and every name that starts with async_,
\* protected_getattr raises ScriptError from its first test, before an owner
\* table is consulted.
C7_AsyncDeniedFirst ==
    (probe.done /\ probe.fn = "_getattr_" /\ StartsWith(probe.name, "async_")) =>
        /\ probe.exc = "ScriptError"
        /\ probe.msg = "Not allowed to access async methods"
        /\ ~probe.yields

\* C7 witness: an async_ name was refused on the event bus, whose table would
\* refuse it too.
C7_Witness ==
    /\ probe.done
    /\ probe.fn = "_getattr_"
    /\ probe.obj = "bus"
    /\ probe.name = <<"async_", "fire">>
    /\ probe.msg = "Not allowed to access async methods"

\* C8: when the program read an attribute of the host handle that
\* ALLOWED_HASS does not name, the call returns a ServiceValidationError
\* descriptor and nothing the program wrote into `output`.
C8_ForbiddenReadFails ==
    (Ended /\ attempt.read # "none") =>
        /\ ReturnedFailure
        /\ outcome.result.output.error = "ServiceValidationError"
        /\ outcome.result.output.map = EmptyMap

\* C9: when the program called a forbidden attribute of a host owner, no host
\* mutation occurs: the forbidden operation was not invoked and the host is as
\* it was when the call started.
C9_ForbiddenCallChangesNothing ==
    (Ended /\ attempt.call) =>
        /\ ~attempt.invoked
        /\ host = hostBefore

\* The module names the claim C10 lists.
C10_ListedModules ==
    {<<"math">>, <<"random">>, <<"itertools">>, <<"functools">>,
     <<"collections">>, <<"json">>, <<"csv">>, <<"re">>, <<"string">>,
     <<"enum">>, <<"types">>, <<"time">>, <<"datetime">>, <<"logging">>}

\* C10 as claimed: protected_import succeeds only for the eleven listed
\* standard modules and the three synthetic ones, and raises
\* ImportError("Module <name> not found") for every other name.
C10_AsClaimed ==
    (probe.done /\ probe.fn = "__import__") =>
        /\ probe.exc = "none" => probe.name \in C10_ListedModules
        /\ probe.name \notin C10_ListedModules =>
              probe.exc = "ImportError" /\ probe.msg = "Module not found"

\* The names protected_import has a branch for: a first component in
\* ALLOWED_IMPORT, or exactly one of the four special names.
C10_Permitted(name) ==
    \/ Head(name) \in ALLOWED_IMPORT
    \/ name \in {<<"datetime">>, <<"time">>, <<"dt_util">>, <<"logging">>}

\* C10 amended: protected_import succeeds only for a name whose first
\* component is in ALLOWED_IMPORT (the eleven listed modules and `operator`)
\* or that is one of datetime, time, dt_util, logging; these sixteen names
\* themselves succeed; every other name raises
\* ImportError("Module <name> not found"), which the except clauses of
\* execute turn into a HomeAssistantError.
C10_ImportAllowList ==
    (probe.done /\ probe.fn = "__import__") =>
        /\ probe.exc = "none" => C10_Permitted(probe.name)
        /\ (Len(probe.name) = 1 /\ C10_Permitted(probe.name)) =>
              probe.exc = "none"
        /\ probe.name = <<"operator">> => probe.mod = "operator"
        /\ probe.name = <<"dt_util">> => probe.mod = "dt_util"
        /\ ~C10_Permitted(probe.name) =>
              /\ probe.exc = "ImportError"
              /\ probe.msg = "Module not found"
              /\ probe.mod = "none"
              /\ TranslateExc(probe.exc) = "HomeAssistantError"

\* C10 witness: a dotted name whose first component is one of the special
\* names was refused with the not-found ImportError.
C10_Witness ==
    /\ probe.done
    /\ probe.fn = "__import__"
    /\ probe.name = <<"datetime", "datetime">>
    /\ probe.exc = "ImportError"
    /\ probe.msg = "Module not found"

\* What the call of guarded_inplacevar gave.
InplaceOutcome ==
    [exc |-> inplace.exc, msg |-> inplace.msg, value |-> inplace.value]

C12_Bit(n, i) == (n \div Power(2, i)) % 2

C12_Bits == 0..7

C12_Small(n) == n >= -128 /\ n < 128

\* What `x sym y` is for two ints, told of the outcome r.
C12_IntResult(sym, x, y, r) ==
    LET n == r.value.n
        d == r.value.d
        isInt == r.exc = "none" /\ r.value.type = "int"
        isFloat == r.exc = "none" /\ r.value.type = "float" /\ d > 0
        bitwise(f(_, _)) ==
            /\ isInt
            /\ C12_Small(n)
            /\ \A i \in C12_Bits :
                   C12_Bit(n, i) = f(C12_Bit(x, i), C12_Bit(y, i))
        and(p, q) == p * q
        or(p, q) == IF p + q > 0 THEN 1 ELSE 0
        xor(p, q) == IF p = q THEN 0 ELSE 1
    IN  CASE sym = "+=" -> isInt /\ n = x + y
          [] sym = "-=" -> isInt /\ n = x - y
          [] sym = "*=" -> isInt /\ n = x * y
          [] sym = "/=" ->
                 IF y = 0 THEN r.exc = "ZeroDivisionError"
                 ELSE isFloat /\ n * y = x * d
          [] sym = "//=" ->
                 IF y = 0 THEN r.exc = "ZeroDivisionError"
                 ELSE /\ isInt
                      /\ y > 0 => (n * y <= x /\ x < n * y + y)
                      /\ y < 0 => (n * y >= x /\ x > n * y + y)
          [] sym = "%=" ->
                 IF y = 0 THEN r.exc = "ZeroDivisionError"
                 ELSE /\ isInt
                      /\ y > 0 => (0 <= n /\ n < y)
                      /\ y < 0 => (y < n /\ n <= 0)
                      /\ \E q \in -128..128 : x = q * y + n
          [] sym = "**=" ->
                 IF y >= 0 THEN isInt /\ n = Power(x, y)
                 ELSE IF x = 0 THEN r.exc = "ZeroDivisionError"
                 ELSE isFloat /\ n * Power(x, -y) = d
          [] sym = "<<=" ->
                 IF y < 0 THEN r.exc = "ValueError"
                 ELSE isInt /\ n = x * Power(2, y)
          [] sym = ">>=" ->
                 IF y < 0 THEN r.exc = "ValueError"
                 ELSE /\ isInt
                      /\ n * Power(2, y) <= x
                      /\ x < (n + 1) * Power(2, y)
          [] sym = "&=" -> bitwise(and)
          [] sym = "^=" -> bitwise(xor)
          [] sym = "|=" -> bitwise(or)
          [] sym = "@=" -> r.exc = "TypeError"

\* What `a sym b` is when a is a list or a text, told of the outcome r.
C12_SequenceResult(sym, a, b, r) ==
    LET isSame == r.exc = "none" /\ r.value.type = a.type
        items == r.value.items
    IN  CASE sym = "+=" /\ b.type = a.type ->
                 isSame /\ items = a.items \o b.items
          [] sym = "*=" /\ b.type = "int" ->
                 /\ isSame
                 /\ Len(items)
                        = Len(a.items) * (IF b.n > 0 THEN b.n ELSE 0)
                 /\ \A i \in 1..Len(items) :
                        items[i] = a.items[((i - 1) % Len(a.items)) + 1]
          [] sym = "%=" /\ a.type = "str" /\ b.type = "list" ->
                 r = OpReturns(a)
          [] OTHER -> r.exc = "TypeError"

\* C12: for a target of an allowed type, each of the thirteen symbols gives
\* what the binary operation of that symbol gives on (target, operand), its
\* exception when it raises one; a symbol the table does not hold raises
\* ScriptError.
C12_SymbolTable ==
    (inplace.done /\ inplace.target.type \in {"int", "list", "str"}) =>
        LET a == inplace.target
            b == inplace.operand
        IN  IF inplace.op
                   \notin {"+=", "-=", "*=", "/=", "//=", "%=", "**=", "<<=",
                           ">>=", "&=", "^=", "|=", "@="}
            THEN inplace.exc = "ScriptError" /\ inplace.value = NoValue
            ELSE IF a.type = "int" /\ b.type = "int"
            THEN C12_IntResult(inplace.op, a.n, b.n, InplaceOutcome)
            ELSE IF a.type = "int"
            THEN IF inplace.op = "*="
                 THEN C12_SequenceResult("*=", b, a, InplaceOutcome)
                 ELSE inplace.exc = "TypeError"
            ELSE C12_SequenceResult(inplace.op, a, b, InplaceOutcome)

C12_Witness ==
    /\ inplace.done
    /\ inplace.op = ">>="
    /\ inplace.target = IntValue(3)
    /\ inplace.operand = IntValue(1)
    /\ inplace.value = IntValue(1)

\* C13: a call whose program only assigned literals to keys of `output`
\* returns a result whose only key is `output`, holding the mapping and no
\* error, whatever the calls before it did.
C13_AssignOnlyResult ==
    (Ended /\ execs = 1 /\ ~compiled.warnings /\ hooks > 0
        /\ program.assignsOnly) =>
        /\ outcome.kind = "returned"
        /\ outcome.result.keys = {"output"}
        /\ ~outcome.result.output.isError

\* The text of the calls of print in q, each with the end of its line.
RECURSIVE C14_Rendered(_)
C14_Rendered(q) ==
    IF q = << >> THEN << >>
    ELSE <<Head(q).text, "\n">> \o C14_Rendered(Tail(q))

\* The call that ended returned a result.
Returned == Ended /\ outcome.kind = "returned"

\* C14 as claimed: the text of every call of print the program made is in
\* `printed`, in the order of the calls.
C14_EveryPrint ==
    Returned => outcome.result.printed = C14_Rendered(program.said)

\* The calls of print that named no file.
C14_Buffered == SelectSeq(program.said, LAMBDA p : ~p.file)

\* C14: the calls of print that name no file, at the level of the module or
\* inside a function, append to the one list `printed` in the order they are
\* made, and the `printed` of the result is the concatenation of that list; a
\* call that names a file leaves the list as it is.
C14_PrintedInOrder ==
    /\ pc \in {"Executing", "Raised", "Succeeded", "Failed"} =>
           Join(printed) = C14_Rendered(C14_Buffered)
    /\ Returned => outcome.result.printed = C14_Rendered(C14_Buffered)

C14_Witness ==
    /\ Returned
    /\ outcome.result.printed = <<"test1", "\n", "test2", "\n">>
    /\ program.said[1].scope = "module"
    /\ program.said[2].scope = "function"

C16_Own == SelectSeq(classLogs, LAMBDA r : r.call = calls)

\* C16: the `logs` of a result are the records emitted during that call, in
\* the order of emission, and none of an earlier call; a call that logged
\* nothing returns no `logs` key.
C16_OwnRecordsOnly ==
    Returned =>
        /\ outcome.result.logs
               = [i \in 1..Len(C16_Own) |->
                     [level |-> C16_Own[i].level, msg |-> C16_Own[i].msg]]
        /\ "logs" \in outcome.result.keys <=> C16_Own # << >>

C18_OwnedByInvocation ==
    \A i \in Invocations :
        inv[i].pc = "Done" =>
            /\ inv[i].result.logs = inv[i].logged
            /\ \A k \in DOMAIN inv[i].result.output.map :
                   <<k, inv[i].result.output.map[k]>> \in inv[i].wrote

\* The states in which execute has finished.
C19_Terminal == {"CompileFailed", "Succeeded", "Failed"}

\* The steps a call may take from one state to the next.  "Raised" is the
\* part of Executing in which an exception is on its way out of exec().
C19_Step ==
    /\ pc = "Idle" => pc' \in {"Idle", "Compiling"}
    /\ pc = "Compiling" => pc' \in {"Compiling", "CompileFailed", "Executing"}
    /\ pc = "Executing" => pc' \in {"Executing", "Raised", "Succeeded"}
    /\ pc = "Raised" => pc' \in {"Raised", "Failed"}
    /\ pc \in C19_Terminal =>
           /\ pc' \in {pc, "Idle"}
           /\ pc' = "Idle" => calls' = calls + 1
    /\ (pc = "Compiling" /\ pc' # pc) => execs = 0
    /\ execs' <= 1

\* C19: a call goes Idle, Compiling, then CompileFailed or Executing, and
\* from Executing to Succeeded or Failed: the source is compiled once, the
\* compiled program is executed at most once, a finished state is left only
\* by the end of the call, and a call whose program terminates reaches a
\* finished state.
C19_SingleShot ==
    /\ [][C19_Step]_vars
    /\ [](pc \in {"Compiling", "Executing", "Raised"} =>
              ENABLED (Compile \/ ExecEnd \/ ExecRaise))
    /\ (pc = "Compiling") ~> (pc \in C19_Terminal)

C19_Witness ==
    /\ pc = "Failed"
    /\ calls = 1
    /\ execs = 1
    /\ outcome.kind = "none"

\* C20: an exception that leaves the running program is translated by its
\* kind: ScriptError becomes ServiceValidationError, any other kind K becomes
\* HomeAssistantError with the name of K and the message of the exception;
\* a compile failure is a ScriptError.
C20_TranslatedByKind ==
    [][/\ (pc = "Raised" /\ pc' = "Failed") =>
              exc' = IF exc.kind = "ScriptError"
                     THEN [kind |-> "ServiceValidationError",
                           text |-> <<"Error executing script">> \o exc.text]
                     ELSE [kind |-> "HomeAssistantError",
                           text |-> <<"Error executing script", exc.kind>>
                                       \o exc.text]
       /\ pc' = "CompileFailed" => exc'.kind = "ScriptError"]_vars

\* C21: while a program executes, the global names beyond the fixed ones
\* are those this program has bound, `output` is empty until this program
\* writes into it, and `data` holds what the caller passed (nothing when
\* the caller passed none) until this program writes into it: nothing that
\* the program of an earlier call bound or wrote is there.
C21_FreshNamespace ==
    pc = "Executing" =>
        /\ namespace.names = program.bound
        /\ ~program.wrote => output = EmptyMap
        /\ ~program.stored =>
              namespace.data = IF arg.given THEN arg.map ELSE EmptyMap

\* A program executes after the programs before it bound a name, wrote into
\* `output` and into `data`, and it has bound no name of its own yet.
C21_Witness ==
    /\ pc = "Executing"
    /\ earlier.names # {}
    /\ earlier.wrote
    /\ earlier.stored
    /\ program.bound = {}

\* C22: when the calls of sleep follow one another, the warning is emitted
\* once, by the first call, as soon as a call has returned and never by
\* another; the flag never goes back to false; and every call that returned
\* has called time.sleep.
C22_WarnedOnce ==
    /\ [](/\ sleeps.emitted \in {<< >>, <<1>>}
          /\ sleeps.returned # {} => sleeps.emitted = <<1>>
          /\ sleeps.returned \subseteq sleeps.delegated)
    /\ [][warned => warned']_vars

\* Three calls of sleep by three callers, each with its wrapper, have
\* returned.
C22_Witness ==
    /\ Cardinality(sleeps.returned) >= 3
    /\ {sleeps.by[n] : n \in sleeps.returned} = Sleepers
    /\ warned

\* C23: when calls of sleep overlap, under every interleaving no caller
\* emits the warning twice, the flag is true from the moment a caller has
\* set it, a call that started after that does not come to emit the
\* warning, and once the callers are all out of sleep and one has returned
\* the warning has been emitted.
C23_RaceBounded ==
    /\ \A i, j \in DOMAIN sleeps.emitted :
          i # j => sleeps.by[sleeps.emitted[i]] # sleeps.by[sleeps.emitted[j]]
    /\ Len(sleeps.emitted) <= Cardinality(Sleepers)
    /\ (sleeps.emitted # << >> \/ \E c \in Sleepers : sleeps.of[c].pc = "warn")
          => warned
    /\ \A c \in Sleepers :
          sleeps.of[c].late => sleeps.of[c].pc \notin {"set", "warn"}
    /\ (sleeps.returned # {} /\ \A c \in Sleepers : sleeps.of[c].pc = "idle")
          => sleeps.emitted # << >>

\* Two callers that overlapped have both emitted the warning, and a call
\* that started after the flag was set has reached time.sleep.
C23_Witness ==
    /\ Len(sleeps.emitted) >= 2
    /\ \E c \in Sleepers : sleeps.of[c].late /\ sleeps.of[c].pc = "asleep"

\* C24: in the arguments the function is called with, every parameter of
\* the function named hass, llm_context or after an attribute of LLMContext
\* has the value of the platform, whatever the LLM sent under that name;
\* the published schema has no key for such a parameter and has one for
\* every other parameter of the function.
C24_ProvidedParameters ==
    /\ functionTool.called =>
          \A n \in DOMAIN functionTool.signature :
             IsProvided(n) =>
                /\ n \in DOMAIN functionTool.kwargs
                /\ functionTool.kwargs[n] = ProvidedValue(n)
    /\ functionTool.made =>
          DOMAIN functionTool.parameters =
             {n \in DOMAIN functionTool.signature : ~IsProvided(n)}

\* The LLM sent `hass` and `platform` to a function that has both
\* parameters and others.
C24_Witness ==
    /\ functionTool.called
    /\ {"hass", "platform"} \subseteq DOMAIN functionTool.tool_args
    /\ {"hass", "platform", "required_arg", "optional_arg"}
          \subseteq DOMAIN functionTool.signature

\* The last accepted registration under a name, 0 when there is none.
LastRegistered(name) ==
    LET accepted == {i \in DOMAIN registry.history :
                        /\ registry.history[i].name = name
                        /\ registry.history[i].raised = "none"}
    IN  IF accepted = {} THEN 0
        ELSE CHOOSE i \in accepted : \A j \in accepted : j <= i

\* C27: the registry holds, under each name, the tool registered last under
\* it and nothing under the other names; a warning is logged for each
\* registration under a name already there; a call with an llm.Tool that is
\* not a PowerLLMTool raises TypeError and leaves the registry as it was.
C27_LastRegistered ==
    /\ DOMAIN registry.tools =
          {registry.history[i].name : i \in
              {j \in DOMAIN registry.history :
                  registry.history[j].raised = "none"}}
    /\ \A name \in DOMAIN registry.tools :
          registry.tools[name] = LastRegistered(name)
    /\ Len(registry.warnings) + Cardinality(DOMAIN registry.tools) =
          Cardinality({j \in DOMAIN registry.history :
                          registry.history[j].raised = "none"})
    /\ \A i \in DOMAIN registry.history :
          LET h == registry.history[i]
              after == IF i = Len(registry.history) THEN registry.tools
                       ELSE registry.history[i + 1].before
          IN  /\ h.raised = "TypeError" <=> h.tool.kind = "llm.Tool"
              /\ h.raised = "TypeError" => after = h.before
              /\ h.raised = "none" =>
                    /\ after[h.name] = i
                    /\ \A n \in DOMAIN h.before :
                          n # h.name => after[n] = h.before[n]

\* A name was registered twice and then an llm.Tool of that name was
\* refused, while another name is registered too.
C27_Witness ==
    /\ Len(registry.history) = 4
    /\ registry.history[4].raised = "TypeError"
    /\ registry.warnings # << >>
    /\ Cardinality(DOMAIN registry.tools) >= 2

RECURSIVE PreOrderOfAll(_, _)
RECURSIVE PreOrder(_, _)
\* The steps of a schema in pre-order: the step, then, for each enabled
\* section in the order of declaration, the steps of that section.
PreOrder(step, enabled) == <<step>> \o PreOrderOfAll(Sections[step], enabled)

PreOrderOfAll(sections, enabled) ==
    IF sections = << >> THEN << >>
    ELSE (IF Head(sections) \in enabled
          THEN PreOrder(Head(sections), enabled)
          ELSE << >>) \o PreOrderOfAll(Tail(sections), enabled)

\* The steps of the flow: those of the data schema unless it is an options
\* flow, then those of the options schema.
FlowSteps ==
    (IF flow.kind = "config" THEN PreOrder("user", flow.enabled) ELSE << >>)
      \o PreOrder("init", flow.enabled)

\* The place of a step in a sequence of steps, 0 when it is not there.
Place(step, sequence) ==
    IF \E k \in DOMAIN sequence : sequence[k] = step
    THEN CHOOSE k \in DOMAIN sequence : sequence[k] = step
    ELSE 0

\* C25: the forms follow the pre-order of the schema: the first form is the
\* first step, a form shown after a submission with errors is the form of
\* the same step, a form shown after a valid submission is that of the next
\* step; the entry is created at most once, only after every step was
\* accepted, and holds what each step was given last.
C25_PreOrderSteps ==
    flow.pc # "none" =>
       LET all == FlowSteps
           at == [i \in DOMAIN flow.shown |-> Place(flow.shown[i].step, all)]
       IN  /\ \A i \in DOMAIN flow.shown :
                 /\ at[i] > 0
                 /\ flow.shown[i].after = "start" => i = 1 /\ at[i] = 1
                 /\ flow.shown[i].after = "errors" =>
                       i > 1 /\ at[i] = at[i - 1]
                 /\ flow.shown[i].after = "valid" =>
                       i > 1 /\ at[i] = at[i - 1] + 1
           /\ flow.entries <= 1
           /\ flow.entries = 1 <=> flow.pc = "created"
           /\ flow.pc = "created" =>
                 /\ at[Len(flow.shown)] = Len(all)
                 /\ DOMAIN flow.entry = {all[k] : k \in DOMAIN all}
                 /\ flow.entry = flow.data

\* A config flow with a disabled section and nested sections was completed
\* after a submission was refused.
C25_Witness ==
    /\ flow.pc = "created"
    /\ flow.kind = "config"
    /\ flow.enabled = {"tool_selection", "filters", "account"}
    /\ flow.retries > 0

\* C26: async_call never waits longer than SCRIPT_TIMEOUT and the script
\* task is never cancelled; a call that returns while the run goes on
\* returns the background message; a run that ended with a result before
\* the timeout gives its service response when it has one and the success
\* result otherwise, and async_call returns those two only for such a run.
C26_TimeoutKeepsTask ==
    /\ script.clock <= SCRIPT_TIMEOUT
    /\ script.task # "cancelled"
    /\ script.pc = "returned" =>
          /\ script.task = "running" => script.result = "background"
          /\ (script.task = "done" /\ script.finishedAt \in 0..(SCRIPT_TIMEOUT - 1))
                => script.result = IF script.response = "some"
                                   THEN "service_response" ELSE "success"
          /\ script.result = "service_response" =>
                script.task = "done" /\ script.response = "some"
          /\ script.result = "success" =>
                script.task = "done" /\ script.response # "some"

\* The timeout expired, async_call returned the background message, and
\* the run ended afterwards.
C26_Witness ==
    /\ script.pc = "returned"
    /\ script.result = "background"
    /\ script.task = "done"
    /\ script.finishedAt = SCRIPT_TIMEOUT + 1

\* C28: whatever guarded_inplacevar is called with, the object that was
\* the target holds afterwards what it held before, and for a list target
\* the value returned, to which the name is bound again, is another object.
C28_TargetUntouched ==
    inplace.done =>
        /\ inplace.after = inplace.target
        /\ ~inplace.same

\* `x += y` for two lists that are not empty: the value returned is longer
\* than the target.
C28_Witness ==
    /\ inplace.done
    /\ inplace.op = "+="
    /\ inplace.target.type = "list"
    /\ inplace.target.items # << >>
    /\ inplace.operand.type = "list"
    /\ inplace.operand.items # << >>
    /\ inplace.exc = "none"
    /\ inplace.value # inplace.target

\* The object the last of these statements binds to the name `output`.
Rebound(statements) ==
    LET last == statements[Len(statements)]
    IN  OutputObject(last.key, last.val,
                     IF last.key = "dict" /\ last.val # 0
                     THEN [k \in {"b"} |-> last.val] ELSE EmptyMap)

\* C29: when the program has ended without an exception, what
\* python_code_execute wraps under `output` is the object the name referred
\* to at the end: the mapping of the namespace with all the program wrote
\* into it when the program never bound the name again, and otherwise the
\* object it bound last, with what it wrote through the name after that and
\* nothing of what it had written into the mapping of the namespace.  The
\* result has the key `output` unless the program printed and the object is
\* false.
C29_ReturnsBoundObject ==
    (Returned /\ ~outcome.result.output.isError) =>
        LET got == outcome.result.output
        IN  /\ IF program.rebinds = << >>
               THEN /\ got.object = "dict"
                    /\ program.wrote => got.map # EmptyMap
               ELSE /\ got.object = Rebound(program.rebinds).object
                    /\ got.n = Rebound(program.rebinds).n
                    /\ got.map = program.late @@ Rebound(program.rebinds).map
            /\ "output" \in outcome.result.keys
                  <=> ~(outcome.result.printed # << >> /\ IsEmptyOutput(got))

\* A program wrote into the mapping of the namespace, bound `output` to a
\* new mapping and wrote into that one: the result holds the second entry
\* only.
C29_Witness ==
    /\ Returned
    /\ Len(program.rebinds) = 1
    /\ program.late # EmptyMap
    /\ "output" \in outcome.result.keys
    /\ DOMAIN outcome.result.output.map = DOMAIN program.late
    /\ DOMAIN namespace.rebound.map # Keys

\* C30: a call that ended in a failure after its program had printed
\* returned a result that has the error descriptor under `output` and the
\* text printed before the failure under `printed`.
C30_FailureKeepsPrints ==
    (/\ Ended
     /\ C14_Buffered # << >>
     /\ outcome.kind = "escaped" \/ outcome.result.output.isError) =>
        /\ outcome.kind = "returned"
        /\ outcome.result.output.isError
        /\ {"output", "printed"} \subseteq outcome.result.keys
        /\ outcome.result.printed = C14_Rendered(C14_Buffered)

====
